---- MODULE Spec2Model ----
(***************************************************************************)
(* Health monitor of a small metagraph cluster: fork detection over the    *)
(* nodes' cluster views (packages/health-monitor/src/cluster.ts), the      *)
(* restart procedures (packages/health-monitor/src/restart.ts), the entry  *)
(* point's signal handlers, and the tick loop of src/index.ts.             *)
(***************************************************************************)
EXTENDS Integers, Sequences, FiniteSets, TLC

\* ---------------------------------------------------------------- bounds
\* Largest cluster explored; the cluster size n ranges over 1..MaxNodes.
MaxNodes == 4
\* Last instant of wall-clock time explored.
MaxTime == 4
\* Largest snapshot ordinal a node reports.
MaxOrdinal == 1

\* ------------------------------------------------------------- data model
\* types.ts: LayerName
LayerNames == {"GL0", "ML0", "CL1", "DL1"}

\* Faulty variant of layerOrder: the layers stopped in their start order.
layerOrderAsStartOrder == <<"ML0", "GL0", "CL1", "DL1">>

\* restart.ts: restartFullMetagraph's stop and start orders
layerOrder == <<"DL1", "CL1", "GL0", "ML0">>
startOrder == <<"ML0", "GL0", "CL1", "DL1">>

\* Peer ids a /cluster/info answer may list, with their rank under the
\* default (code-unit) order of Array.prototype.sort.
PeerIds == {"a", "b"}
IdRank(id) == IF id = "a" THEN 1 ELSE 2

\* What fetchFn may do for one node: throw, answer something that is not an
\* array, or answer a list of peers (duplicate-free, in any order).
PeerLists == {<<>>, <<"a">>, <<"a", "b">>, <<"b", "a">>}
FetchOutcomes ==
    {[kind |-> "throw", data |-> <<>>], [kind |-> "notArray", data |-> <<>>]}
        \cup {[kind |-> "array", data |-> p] : p \in PeerLists}

\* config.ts: NodeInfo.host of the node with nodeId i; NoSeed is `undefined`.
Host(i) == [host |-> i]
NoSeed == [host |-> 0]

\* The configured node list of an n-node cluster, in configured order.
NodeList(n) == [i \in 1..n |-> i]

\* ------------------------------------------------------- cluster.ts (pure)
\* Faulty variant of pollNodeCluster: the error field is set on every view.
pollNodeClusterAlwaysError(node, layer, out) ==
    [nodeId |-> node, layer |-> layer,
     peers |-> IF out.kind = "array" THEN out.data ELSE <<>>,
     error |-> TRUE]

\* pollNodeCluster: the view a node's fetch outcome becomes.
pollNodeCluster(node, layer, out) ==
    IF out.kind = "throw"
    THEN [nodeId |-> node, layer |-> layer, peers |-> <<>>, error |-> TRUE]
    ELSE [nodeId |-> node, layer |-> layer,
          peers |-> IF out.kind = "array" THEN out.data ELSE <<>>,
          error |-> FALSE]

\* pollLayerCluster: one view per configured node, in configured order.
pollLayerCluster(n, layer, outs) ==
    [layer |-> layer,
     views |-> [i \in 1..n |-> pollNodeCluster(NodeList(n)[i], layer, outs[i])]]

\* Array.prototype.sort on the peer ids (insertion into a sorted prefix).
RECURSIVE InsertSorted(_, _)
InsertSorted(id, s) ==
    IF s = <<>> THEN <<id>>
    ELSE IF IdRank(id) <= IdRank(Head(s)) THEN <<id>> \o s
    ELSE <<Head(s)>> \o InsertSorted(id, Tail(s))

RECURSIVE SortIds(_)
SortIds(s) == IF s = <<>> THEN <<>> ELSE InsertSorted(Head(s), SortIds(Tail(s)))

\* Faulty variant of clusterKey: the peer ids joined without being sorted.
clusterKeyUnsorted(view) ==
    IF view.error THEN [tag |-> "ERROR", node |-> view.nodeId, ids |-> <<>>]
    ELSE IF view.peers = <<>> THEN [tag |-> "EMPTY", node |-> 0, ids |-> <<>>]
         ELSE [tag |-> "IDS", node |-> 0, ids |-> view.peers]

\* Faulty variant of clusterKey: the `|| 'EMPTY'` fallback is missing, a
\* view without peers gets the empty string as its key.
clusterKeyNoEmpty(view) ==
    IF view.error THEN [tag |-> "ERROR", node |-> view.nodeId, ids |-> <<>>]
    ELSE LET ids == SortIds(view.peers)
         IN  IF ids = <<>> THEN [tag |-> "BLANK", node |-> 0, ids |-> <<>>]
             ELSE [tag |-> "IDS", node |-> 0, ids |-> ids]

\* clusterKey: 'ERROR:<nodeId>' for an error view, the sorted ids joined, or
\* 'EMPTY' when the joined string is empty.
clusterKey(view) ==
    IF view.error THEN [tag |-> "ERROR", node |-> view.nodeId, ids |-> <<>>]
    ELSE LET ids == SortIds(view.peers)
         IN  IF ids = <<>> THEN [tag |-> "EMPTY", node |-> 0, ids |-> <<>>]
             ELSE [tag |-> "IDS", node |-> 0, ids |-> ids]

\* findMajority: the 'EMPTY' key of the all-unreachable result, and the ''
\* key the search for the largest group starts from.
EmptyKey == [tag |-> "EMPTY", node |-> 0, ids |-> <<>>]
BlankKey == [tag |-> "BLANK", node |-> 0, ids |-> <<>>]

\* findMajority, first loop: keyGroups.get(key) ?? [], push, set.
RECURSIVE AddToGroup(_, _, _)
AddToGroup(groups, key, node) ==
    IF groups = <<>> THEN <<[key |-> key, nodes |-> <<node>>]>>
    ELSE IF Head(groups).key = key
         THEN <<[key |-> key, nodes |-> Append(Head(groups).nodes, node)]>>
                  \o Tail(groups)
         ELSE <<Head(groups)>> \o AddToGroup(Tail(groups), key, node)

\* Faulty variant of keyGroups: error views are grouped like the others.
RECURSIVE keyGroupsWithErrorViews(_)
keyGroupsWithErrorViews(views) ==
    IF views = <<>> THEN <<>>
    ELSE LET v    == views[Len(views)]
             rest == keyGroupsWithErrorViews(SubSeq(views, 1, Len(views) - 1))
         IN  AddToGroup(rest, clusterKey(v), v.nodeId)

\* findMajority, first loop: the Map key -> nodeIds, in insertion order,
\* error views skipped.
RECURSIVE keyGroups(_)
keyGroups(views) ==
    IF views = <<>> THEN <<>>
    ELSE LET v    == views[Len(views)]
             rest == keyGroups(SubSeq(views, 1, Len(views) - 1))
         IN  IF v.error THEN rest ELSE AddToGroup(rest, clusterKey(v), v.nodeId)

\* The views with an error, as node ids in view order.
RECURSIVE unreachableOf(_)
unreachableOf(views) ==
    IF views = <<>> THEN <<>>
    ELSE IF Head(views).error
         THEN <<Head(views).nodeId>> \o unreachableOf(Tail(views))
         ELSE unreachableOf(Tail(views))

\* Faulty variant of LargestGroup: the first group is kept, whatever the
\* sizes of the later ones.
LargestGroupFirst(groups, best) ==
    IF groups = <<>> THEN best ELSE Head(groups)

\* findMajority, second loop: the group that is strictly larger than every
\* group before it (the first of the largest groups in insertion order).
RECURSIVE LargestGroup(_, _)
LargestGroup(groups, best) ==
    IF groups = <<>> THEN best
    ELSE IF Len(Head(groups).nodes) > Len(best.nodes)
         THEN LargestGroup(Tail(groups), Head(groups))
         ELSE LargestGroup(Tail(groups), best)

\* findMajority, third loop: the nodes of every group but the majority's.
RECURSIVE OtherGroups(_, _)
OtherGroups(groups, key) ==
    IF groups = <<>> THEN <<>>
    ELSE IF Head(groups).key # key
         THEN Head(groups).nodes \o OtherGroups(Tail(groups), key)
         ELSE OtherGroups(Tail(groups), key)

\* Faulty variant of findMajority: with no healthy view, the unreachable
\* nodes are returned as the minority.
findMajorityUnreachableAsMinority(snapshot) ==
    LET groups == keyGroups(snapshot.views)
        unreach == unreachableOf(snapshot.views)
    IN  IF groups = <<>>
        THEN [majorityKey |-> EmptyKey, majorityNodes |-> <<>>,
              minorityNodes |-> unreach, unreachable |-> unreach]
        ELSE LET best == LargestGroup(groups, [key |-> BlankKey, nodes |-> <<>>])
             IN  [majorityKey |-> best.key, majorityNodes |-> best.nodes,
                  minorityNodes |-> OtherGroups(groups, best.key),
                  unreachable |-> unreach]

findMajority(snapshot) ==
    LET groups == keyGroups(snapshot.views)
        unreach == unreachableOf(snapshot.views)
    IN  IF groups = <<>>
        THEN [majorityKey |-> EmptyKey, majorityNodes |-> <<>>,
              minorityNodes |-> <<>>, unreachable |-> unreach]
        ELSE LET best == LargestGroup(groups, [key |-> BlankKey, nodes |-> <<>>])
             IN  [majorityKey |-> best.key, majorityNodes |-> best.nodes,
                  minorityNodes |-> OtherGroups(groups, best.key),
                  unreachable |-> unreach]

\* Faulty variant of detectForks: IndividualNode also when the minority is as
\* large as the majority.
detectForksTieIsIndividual(snapshot) ==
    LET m == findMajority(snapshot)
        fork == IF Len(m.minorityNodes) > 0
                THEN <<[condition |-> "FORK_DETECTED", layer |-> snapshot.layer,
                        nodeIds |-> m.minorityNodes,
                        suggestedAction |->
                            IF Len(m.minorityNodes) <= Len(m.majorityNodes)
                            THEN "IndividualNode" ELSE "FullLayer"]>>
                ELSE <<>>
        unre == IF Len(m.unreachable) > 0
                THEN <<[condition |-> "NODE_UNREACHABLE", layer |-> snapshot.layer,
                        nodeIds |-> m.unreachable,
                        suggestedAction |-> "IndividualNode"]>>
                ELSE <<>>
    IN  fork \o unre

\* detectForks: the events of one snapshot, FORK_DETECTED first.
detectForks(snapshot) ==
    LET m == findMajority(snapshot)
        fork == IF Len(m.minorityNodes) > 0
                THEN <<[condition |-> "FORK_DETECTED", layer |-> snapshot.layer,
                        nodeIds |-> m.minorityNodes,
                        suggestedAction |->
                            IF Len(m.minorityNodes) < Len(m.majorityNodes)
                            THEN "IndividualNode" ELSE "FullLayer"]>>
                ELSE <<>>
        unre == IF Len(m.unreachable) > 0
                THEN <<[condition |-> "NODE_UNREACHABLE", layer |-> snapshot.layer,
                        nodeIds |-> m.unreachable,
                        suggestedAction |-> "IndividualNode"]>>
                ELSE <<>>
    IN  fork \o unre

\* --------------------------------------------------------- restart.ts (pure)
InSeq(x, s) == \E i \in DOMAIN s : s[i] = x
Range(s) == {s[i] : i \in DOMAIN s}

\* Array.prototype.find: the first element of s that is in S, 0 for
\* `undefined`.
RECURSIVE FindFirst(_, _)
FindFirst(s, S) ==
    IF s = <<>> THEN 0
    ELSE IF Head(s) \in S THEN Head(s) ELSE FindFirst(Tail(s), S)

\* Faulty variant of targetNodes: the targets in the order of plan.nodeIds.
targetNodesAsListed(p, nodes) ==
    SelectSeq(p.nodeIds, LAMBDA x : InSeq(x, nodes))

\* executeRestartPlan: the configured nodes named by plan.nodeIds, in
\* configured order.
targetNodes(p, nodes) == SelectSeq(nodes, LAMBDA x : InSeq(x, p.nodeIds))

\* executeRestartPlan: plan.seedNode when given, else the first configured
\* node that is not a target; 0 when there is none.
seedNode(p, nodes) ==
    IF p.seedNode # 0
    THEN FindFirst(nodes, {p.seedNode})
    ELSE FindFirst(nodes, {x \in Range(nodes) : ~InSeq(x, p.nodeIds)})

\* seedNode?.host
SeedHost(p, nodes) ==
    IF seedNode(p, nodes) = 0 THEN NoSeed ELSE Host(seedNode(p, nodes))

\* The ssh.ts commands: stopLayerOnNode(node, layer) and
\* restartLayerOnNode(node, layer, seedHost).
StopCmd(node, layer) ==
    [op |-> "stop", node |-> node, layer |-> layer, seed |-> NoSeed]
StartCmd(node, layer, seed) ==
    [op |-> "start", node |-> node, layer |-> layer, seed |-> seed]

\* A step of a procedure is one `await`: phase "ind" (restartIndividualNode of
\* target k), "stop" (the Promise.all of the stops of layer l), "genesis"
\* (the genesis start of layer l) or "join" (the start of joiner k of layer l).
\* DoneStep says the procedure has run to its end.
DoneStep == [phase |-> "end", l |-> 0, k |-> 0]
Step(phase, l, k) == [phase |-> phase, l |-> l, k |-> k]

\* const [genesis, ...joiners] = nodes
genesisOf(nodes) == Head(nodes)
joinersOf(nodes) == Tail(nodes)

\* restartIndividualNode, called for each target in turn.
restartIndividualNodeCmds(p, nodes, st) ==
    {StartCmd(targetNodes(p, nodes)[st.k], p.layer, SeedHost(p, nodes))}

IndividualFirst(p, nodes) ==
    IF targetNodes(p, nodes) = <<>> THEN DoneStep ELSE Step("ind", 1, 1)

IndividualNext(p, nodes, st) ==
    IF st.k < Len(targetNodes(p, nodes)) THEN Step("ind", 1, st.k + 1) ELSE DoneStep

\* Faulty variant of restartFullLayerCmds: a joiner is given its own host as seed.
restartFullLayerCmdsJoinSelf(p, nodes, st) ==
    CASE st.phase = "stop" ->
            {StopCmd(nodes[i], p.layer) : i \in DOMAIN nodes}
      [] st.phase = "genesis" ->
            {StartCmd(genesisOf(nodes), p.layer, NoSeed)}
      [] OTHER ->
            {StartCmd(joinersOf(nodes)[st.k], p.layer,
                      Host(joinersOf(nodes)[st.k]))}

\* restartFullLayer: stop all, genesis, then the joiners one by one.
restartFullLayerCmds(p, nodes, st) ==
    CASE st.phase = "stop" ->
            {StopCmd(nodes[i], p.layer) : i \in DOMAIN nodes}
      [] st.phase = "genesis" ->
            {StartCmd(genesisOf(nodes), p.layer, NoSeed)}
      [] OTHER ->
            {StartCmd(joinersOf(nodes)[st.k], p.layer, Host(genesisOf(nodes)))}

restartFullLayerNext(nodes, st) ==
    CASE st.phase = "stop" -> Step("genesis", 1, 0)
      [] st.phase = "genesis" ->
            IF joinersOf(nodes) = <<>> THEN DoneStep ELSE Step("join", 1, 1)
      [] OTHER ->
            IF st.k < Len(joinersOf(nodes)) THEN Step("join", 1, st.k + 1)
            ELSE DoneStep

\* Faulty variant of restartFullMetagraphCmds: the join loop runs over the
\* whole node list, so the genesis is started again and the last node never.
restartFullMetagraphCmdsRejoinGenesis(nodes, st) ==
    CASE st.phase = "stop" ->
            {StopCmd(nodes[i], layerOrder[st.l]) : i \in DOMAIN nodes}
      [] st.phase = "genesis" ->
            {StartCmd(genesisOf(nodes), startOrder[st.l], NoSeed)}
      [] OTHER ->
            {StartCmd(nodes[st.k], startOrder[st.l], Host(genesisOf(nodes)))}

\* restartFullMetagraph: the stops layer by layer in layerOrder, then for each
\* layer of startOrder the genesis and the joiners one by one.
restartFullMetagraphCmds(nodes, st) ==
    CASE st.phase = "stop" ->
            {StopCmd(nodes[i], layerOrder[st.l]) : i \in DOMAIN nodes}
      [] st.phase = "genesis" ->
            {StartCmd(genesisOf(nodes), startOrder[st.l], NoSeed)}
      [] OTHER ->
            {StartCmd(joinersOf(nodes)[st.k], startOrder[st.l],
                      Host(genesisOf(nodes)))}

NextLayerStart(st) ==
    IF st.l < Len(startOrder) THEN Step("genesis", st.l + 1, 0) ELSE DoneStep

restartFullMetagraphNext(nodes, st) ==
    CASE st.phase = "stop" ->
            IF st.l < Len(layerOrder) THEN Step("stop", st.l + 1, 0)
            ELSE Step("genesis", 1, 0)
      [] st.phase = "genesis" ->
            IF joinersOf(nodes) = <<>> THEN NextLayerStart(st)
            ELSE Step("join", st.l, 1)
      [] OTHER ->
            IF st.k < Len(joinersOf(nodes)) THEN Step("join", st.l, st.k + 1)
            ELSE NextLayerStart(st)

\* executeRestartPlan's switch on plan.group.
FirstStep(p, nodes) ==
    CASE p.group = "IndividualNode" -> IndividualFirst(p, nodes)
      [] p.group = "FullLayer" -> Step("stop", 1, 0)
      [] OTHER -> Step("stop", 1, 0)

StepCmds(p, nodes, st) ==
    CASE p.group = "IndividualNode" -> restartIndividualNodeCmds(p, nodes, st)
      [] p.group = "FullLayer" -> restartFullLayerCmds(p, nodes, st)
      [] OTHER -> restartFullMetagraphCmds(nodes, st)

NextStep(p, nodes, st) ==
    CASE p.group = "IndividualNode" -> IndividualNext(p, nodes, st)
      [] p.group = "FullLayer" -> restartFullLayerNext(nodes, st)
      [] OTHER -> restartFullMetagraphNext(nodes, st)

\* An awaited command resolved: the procedure goes on with the next step.
\* An awaited command rejected: nothing in restart.ts catches, so the
\* procedure and executeRestartPlan end there with the rejection.
Resolved(p, nodes, st) ==
    LET nx == NextStep(p, nodes, st)
    IN  IF nx = DoneStep
        THEN [pc |-> "done", step |-> DoneStep, result |-> "ok"]
        ELSE [pc |-> "issue", step |-> nx, result |-> "none"]

\* Faulty variant of Rejected: the rejection is swallowed and the procedure goes on.
RejectedSwallowed(p, nodes, st) == Resolved(p, nodes, st)

Rejected(p, nodes, st) == [pc |-> "failed", step |-> st, result |-> "failed"]


\* ------------------------------------------------------------------ state
VARIABLES
    n,            \* number of configured nodes (config.nodes.length)
    snapshot,     \* the ClusterSnapshot of the last poll
    events,       \* the HealthEvents detection returned, not yet handled
    partition,    \* findMajority's result for the snapshot of the handled event
    plan,         \* the RestartPlan executeRestartPlan was called with
    pc,           \* executeRestartPlan: idle / issue / await / done / failed
    step,         \* the step the procedure is at
    issued,       \* commands the procedure has issued on the command port
    completed,    \* issued commands that resolved
    failedCmds,   \* issued commands that rejected
    result,       \* how executeRestartPlan's promise settled: none / ok / failed
    exited,       \* process.exit was called
    cfg,          \* src/config.ts: the loaded Config
    mainPc,       \* main(): check / awaitCheck / sleep / end
    tick,         \* the runHealthCheck call in progress
    ran,          \* conditions whose detector ran in this tick
    detected,     \* conditions whose detector reported detected in this tick
    performed,    \* conditions whose executeRestart returned true in this tick
    now,          \* wall-clock time, in minutes
    history,      \* the orchestrator's restart records
    orchActive,   \* executeRestart calls that have not returned
    restartsRunning,  \* restart procedures in progress
    lastOrdinal,  \* StallTracker.lastOrdinal: Map key -> ordinal
    lastChanged,  \* StallTracker.lastChanged: Map key -> time of last change
    lastKnownOrdinal,       \* snapshots-stopped.ts: module state
    lastOrdinalChangeTime,  \* snapshots-stopped.ts: module state
    snapshotStallMinutes,   \* src/config.ts: Config.snapshotStallMinutes
    forkLayer,    \* detectForkedCluster: index of the layer checked next
    lastCall,     \* the last detector / tracker call: arguments and result
    monitorConfig,  \* health-monitor config.ts: getConfig's MonitorConfig
    observed,     \* history: per key, the ordinals the ticks observed so far
    notifyCall    \* notify.ts: the notify call in progress and its deliveries

restartVars == <<n, snapshot, events, partition, plan, pc, step, issued,
                 completed, failedCmds, result, exited>>
monitorVars == <<cfg, mainPc, tick, ran, detected, performed, now, history,
                 orchActive, restartsRunning>>
detectVars == <<lastOrdinal, lastChanged, lastKnownOrdinal,
                lastOrdinalChangeTime, snapshotStallMinutes, forkLayer,
                lastCall>>
auxVars == <<monitorConfig, observed, notifyCall>>
vars == <<n, snapshot, events, partition, plan, pc, step, issued, completed,
          failedCmds, result, exited, cfg, mainPc, tick, ran, detected,
          performed, now, history, orchActive, restartsRunning, lastOrdinal,
          lastChanged, lastKnownOrdinal, lastOrdinalChangeTime,
          snapshotStallMinutes, forkLayer, lastCall, monitorConfig, observed,
          notifyCall>>

NoSnapshot == [layer |-> "none", views |-> <<>>]
NoPlan == [group |-> "none", layer |-> "none", nodeIds |-> <<>>, seedNode |-> 0]
NoTick == [ci |-> 0, stage |-> "idle", startedAt |-> 0]
NoConfig == [daemon |-> FALSE, restartCooldownMinutes |-> 0,
             maxRestartsPerHour |-> 0, healthCheckIntervalSeconds |-> 0]

RestartIdle ==
    /\ snapshot = NoSnapshot /\ events = <<>>
    /\ partition = findMajority(NoSnapshot) /\ plan = NoPlan
    /\ pc = "idle" /\ step = DoneStep
    /\ issued = {} /\ completed = {} /\ failedCmds = {}
    /\ result = "none" /\ exited = FALSE

MonitorIdle ==
    /\ cfg = NoConfig /\ mainPc = "end" /\ tick = NoTick
    /\ ran = {} /\ detected = {} /\ performed = {}
    /\ now = 0 /\ history = <<>> /\ orchActive = 0 /\ restartsRunning = 0

\* No detector or tracker call made yet: the StallTracker's Maps are empty,
\* snapshots-stopped.ts has `lastKnownOrdinal = -1` and
\* `lastOrdinalChangeTime = Date.now()` of module load (time 0).
NoCall == [op |-> "none"]
TrackerEmpty == lastOrdinal = <<>> /\ lastChanged = <<>>
StallModuleLoaded == lastKnownOrdinal = -1 /\ lastOrdinalChangeTime = 0
DetectIdle ==
    /\ TrackerEmpty /\ StallModuleLoaded
    /\ snapshotStallMinutes = 0 /\ forkLayer = 1 /\ lastCall = NoCall

\* health-monitor's getConfig has not run, no ordinal has been observed and
\* notify has not been called.
NoMonitorConfig ==
    [snapshotStallThresholdSec |-> 0, telegram |-> FALSE, discord |-> FALSE]
NoDelivery == [attempted |-> FALSE, outcome |-> "none", promise |-> "none"]
NoNotify ==
    [pc |-> "idle", condition |-> "none", telegram |-> NoDelivery,
     discord |-> NoDelivery]
AuxIdle ==
    /\ monitorConfig = NoMonitorConfig /\ observed = <<>>
    /\ notifyCall = NoNotify

\* ------------------------------------------- the monitor of health-monitor
\* The monitor polls a layer, detects, turns an event into a plan and runs
\* executeRestartPlan; SIGTERM / SIGINT may arrive at any moment.
Init ==
    /\ n \in 1..MaxNodes
    /\ RestartIdle
    /\ MonitorIdle
    /\ DetectIdle
    /\ AuxIdle

Running == pc \in {"issue", "await"}
inflight == issued \ (completed \cup failedCmds)

\* The monitor is between two polls: no event pending, no procedure called.
Idle == pc = "idle" /\ events = <<>> /\ snapshot = NoSnapshot

ProcedureForgotten ==
    /\ partition' = findMajority(NoSnapshot) /\ plan' = NoPlan
    /\ pc' = "idle" /\ step' = DoneStep
    /\ issued' = {} /\ completed' = {} /\ failedCmds' = {}
    /\ result' = "none"

\* pollLayerCluster on one layer, then detectForks on its snapshot.
Poll ==
    /\ ~exited /\ Idle
    /\ \E layer \in LayerNames, outs \in [1..n -> FetchOutcomes] :
          LET snap == pollLayerCluster(n, layer, outs)
          IN  /\ snapshot' = snap
              /\ events' = detectForks(snap)
    /\ UNCHANGED <<n, partition, plan, pc, step, issued, completed, failedCmds,
                   result, exited>>
    /\ UNCHANGED monitorVars
    /\ UNCHANGED detectVars
    /\ UNCHANGED auxVars

\* detectClusterStall reporting that every node of ML0 is stalled.
clusterStallEvent(nodes) ==
    [condition |-> "SNAPSHOT_STALL", layer |-> "ML0", nodeIds |-> nodes,
     suggestedAction |-> "FullMetagraph"]

DetectStall ==
    /\ ~exited /\ Idle
    /\ snapshot' = NoSnapshot
    /\ events' = <<clusterStallEvent(NodeList(n))>>
    /\ UNCHANGED <<n, partition, plan, pc, step, issued, completed, failedCmds,
                   result, exited>>
    /\ UNCHANGED monitorVars
    /\ UNCHANGED detectVars
    /\ UNCHANGED auxVars

\* The plan the monitor builds for an event: the event's suggested action,
\* layer and node ids; the event carries no seed, so plan.seedNode is unset.
planFor(e) ==
    [group |-> e.suggestedAction, layer |-> e.layer, nodeIds |-> e.nodeIds,
     seedNode |-> 0]

\* executeRestartPlan is called: targets and seed are computed, and the
\* procedure of plan.group begins (an IndividualNode plan that names no
\* configured node returns at once).
executeRestartPlan(p) ==
    LET first == FirstStep(p, NodeList(n))
    IN  /\ plan' = p
        /\ step' = first
        /\ pc' = IF first = DoneStep THEN "done" ELSE "issue"
        /\ result' = IF first = DoneStep THEN "ok" ELSE "none"
        /\ issued' = {} /\ completed' = {} /\ failedCmds' = {}

HandleEvent ==
    /\ ~exited /\ pc = "idle" /\ events # <<>>
    /\ \E i \in DOMAIN events :
          /\ executeRestartPlan(planFor(events[i]))
          /\ partition' = findMajority(snapshot)
    /\ events' = <<>>
    /\ snapshot' = NoSnapshot
    /\ UNCHANGED <<n, exited>>
    /\ UNCHANGED monitorVars
    /\ UNCHANGED detectVars
    /\ UNCHANGED auxVars

\* executeRestartPlan has returned (resolved or rejected) and the monitor goes
\* back to polling; the record of the procedure's commands is dropped.
Return ==
    /\ ~exited /\ pc \in {"done", "failed"}
    /\ ProcedureForgotten
    /\ UNCHANGED <<n, snapshot, events, exited>>
    /\ UNCHANGED monitorVars
    /\ UNCHANGED detectVars
    /\ UNCHANGED auxVars

\* The poll ends without a restart: the snapshot was healthy, or the monitor
\* takes no action on its events.
NoAction ==
    /\ ~exited /\ pc = "idle" /\ (events # <<>> \/ snapshot # NoSnapshot)
    /\ events' = <<>> /\ snapshot' = NoSnapshot
    /\ UNCHANGED <<n, partition, plan, pc, step, issued, completed, failedCmds,
                   result, exited>>
    /\ UNCHANGED monitorVars
    /\ UNCHANGED detectVars
    /\ UNCHANGED auxVars

\* The procedure reaches its next await: the commands of the step go out.
IssueStep ==
    /\ ~exited /\ pc = "issue"
    /\ issued' = issued \cup StepCmds(plan, NodeList(n), step)
    /\ pc' = "await"
    /\ UNCHANGED <<n, snapshot, events, partition, plan, step, completed,
                   failedCmds, result, exited>>
    /\ UNCHANGED monitorVars
    /\ UNCHANGED detectVars
    /\ UNCHANGED auxVars

\* A command in flight exits 0. When it was the last one the procedure
\* awaits, the procedure goes on (after its sleep) or ends.
CommandSucceeds ==
    /\ ~exited
    /\ \E c \in inflight :
          /\ completed' = completed \cup {c}
          /\ IF pc = "await" /\ StepCmds(plan, NodeList(n), step) \subseteq completed'
             THEN LET r == Resolved(plan, NodeList(n), step)
                  IN  pc' = r.pc /\ step' = r.step /\ result' = r.result
             ELSE UNCHANGED <<pc, step, result>>
    /\ UNCHANGED <<n, snapshot, events, partition, plan, issued, failedCmds,
                   exited>>
    /\ UNCHANGED monitorVars
    /\ UNCHANGED detectVars
    /\ UNCHANGED auxVars

\* A command in flight fails. An awaiting procedure ends with the rejection;
\* the other commands of a Promise.all stay in flight.
CommandFails ==
    /\ ~exited
    /\ \E c \in inflight :
          /\ failedCmds' = failedCmds \cup {c}
          /\ IF pc = "await"
             THEN LET r == Rejected(plan, NodeList(n), step)
                  IN  pc' = r.pc /\ step' = r.step /\ result' = r.result
             ELSE UNCHANGED <<pc, step, result>>
    /\ UNCHANGED <<n, snapshot, events, partition, plan, issued, completed,
                   exited>>
    /\ UNCHANGED monitorVars
    /\ UNCHANGED detectVars
    /\ UNCHANGED auxVars

\* index.ts: process.on('SIGTERM' | 'SIGINT', () => { monitor.stop();
\* process.exit(0); }) -- the handler runs to its end in one turn of the
\* event loop, so nothing pending runs between stop() and exit.
Signal ==
    /\ ~exited
    /\ exited' = TRUE
    /\ UNCHANGED <<n, snapshot, events, partition, plan, pc, step, issued,
                   completed, failedCmds, result>>
    /\ UNCHANGED monitorVars
    /\ UNCHANGED detectVars
    /\ UNCHANGED auxVars

Next ==
    \/ Poll
    \/ DetectStall
    \/ HandleEvent
    \/ NoAction
    \/ Return
    \/ IssueStep
    \/ CommandSucceeds
    \/ CommandFails
    \/ Signal

Spec == Init /\ [][Next]_vars

\* executeRestartPlan called on an IndividualNode plan of any layer, naming
\* up to two node ids in any order (ids above n name no configured node) and
\* carrying no seedNode or one that is not among plan.nodeIds.
ExecutePlan ==
    /\ ~exited /\ Idle
    /\ \E layer \in LayerNames, a \in 0..MaxNodes, b \in 0..MaxNodes,
          sd \in 0..MaxNodes :
          /\ a # 0 /\ a # b /\ sd \notin {a, b} \ {0}
          /\ executeRestartPlan(
                 [group |-> "IndividualNode", layer |-> layer,
                  nodeIds |-> IF b = 0 THEN <<a>> ELSE <<a, b>>,
                  seedNode |-> sd])
    /\ UNCHANGED <<n, snapshot, events, partition, exited>>
    /\ UNCHANGED monitorVars
    /\ UNCHANGED detectVars
    /\ UNCHANGED auxVars

PlanSpec ==
    Init /\ [][ExecutePlan \/ IssueStep \/ CommandSucceeds \/ CommandFails
                  \/ Return]_vars


\* ------------------------------------------------- src/index.ts: tick loop
\* The conditions of runHealthCheck, in the order of its array: 1
\* ForkedCluster, 2 SnapshotsStopped, 3 UnhealthyNodes.
conditions == <<"ForkedCluster", "SnapshotsStopped", "UnhealthyNodes">>

\* loadConfig: the fields the loop and the orchestrator read.  The interval
\* between two ticks is a minute or twenty minutes.
Configs ==
    [daemon : BOOLEAN, restartCooldownMinutes : {1, 2},
     maxRestartsPerHour : {1, 2}, healthCheckIntervalSeconds : {60, 1200}]

\* The minutes explored: MaxTime inter-tick intervals.
LastMinute(c) == MaxTime * (c.healthCheckIntervalSeconds \div 60)

\* What a detector call may do: report nothing, report its condition, throw.
DetectOutcomes == {"clear", "detected", "throws"}

\* main, once the awaited runHealthCheck has settled: the inter-tick sleep in
\* daemon mode, the end of main otherwise.
mainResumed(daemon) == IF daemon THEN "sleep" ELSE "end"

\* Faulty variant of mainAfterThrow: the daemon loop has no try/catch around
\* runHealthCheck.
mainAfterThrowUncaught(daemon) == "crashed"

\* main when the awaited runHealthCheck rejects: in daemon mode the catch of
\* the loop logs the error and awaits notify; otherwise main's promise
\* rejects and `main().catch` exits the process.
mainAfterThrow(daemon) == IF daemon THEN "notify" ELSE "crashed"

\* The daemon loop after `await notify(...)` in its catch block: the sleep
\* when notify's promise fulfilled; a rejection is not caught there and
\* rejects main.
mainAfterNotify(outcome) == IF outcome = "rejects" THEN "crashed" ELSE "sleep"

\* services/notify.js notify(config, message): the message is delivered, or
\* the delivery fails and notify logs the failure; it does not reject.
NotifyOutcomes == {"sent", "failedLogged"}

\* Faulty variant of mainAfterCall: runHealthCheck is called without `await`.
mainAfterCallNotAwaited(daemon) == mainResumed(daemon)

\* main: `await runHealthCheck(config)` -- main goes on only when the call
\* has settled.
mainAfterCall(daemon) == "awaitCheck"

\* runHealthCheck's for loop going on to the next condition, or falling out
\* of the loop after the last one.
nextCondition(ci) ==
    IF ci < Len(conditions)
    THEN [ci |-> ci + 1, stage |-> "detect", startedAt |-> 0]
    ELSE NoTick

\* Faulty variant of afterExecuteRestart: the `return` after a restart is missing.
afterExecuteRestartNoReturn(restarted, ci) == nextCondition(ci)

\* runHealthCheck after `await executeRestart(...)`: return when a restart
\* was performed, go on checking when it was skipped.
afterExecuteRestart(restarted, ci) ==
    IF restarted THEN NoTick ELSE nextCondition(ci)

\* Faulty variant of Gate: the cooldown runs from the start of the last
\* restart, not from its end.
GateCooldownFromStart(t, h, c) ==
    IF h # <<>> /\ t - h[Len(h)].startedAt < c.restartCooldownMinutes
    THEN "cooldown"
    ELSE IF Cardinality({i \in DOMAIN h : t - h[i].startedAt < 60})
                >= c.maxRestartsPerHour
         THEN "rate-limit"
         ELSE "run"

\* Faulty variant of Gate: the call is skipped only when the records of the
\* last hour exceed the limit.
GateLimitExceededByOne(t, h, c) ==
    IF h # <<>> /\ t - h[Len(h)].finishedAt < c.restartCooldownMinutes
    THEN "cooldown"
    ELSE IF Cardinality({i \in DOMAIN h : t - h[i].startedAt < 60})
                > c.maxRestartsPerHour
         THEN "rate-limit"
         ELSE "run"

\* The orchestrator's gate: cooldown since the last record finished, then
\* the number of records started within the last hour.
Gate(t, h, c) ==
    IF h # <<>> /\ t - h[Len(h)].finishedAt < c.restartCooldownMinutes
    THEN "cooldown"
    ELSE IF Cardinality({i \in DOMAIN h : t - h[i].startedAt < 60})
                >= c.maxRestartsPerHour
         THEN "rate-limit"
         ELSE "run"

MInit ==
    /\ n = 1
    /\ RestartIdle
    /\ cfg \in Configs
    /\ mainPc = "check" /\ tick = NoTick
    /\ ran = {} /\ detected = {} /\ performed = {}
    /\ now = 0 /\ history = <<>> /\ orchActive = 0 /\ restartsRunning = 0
    /\ DetectIdle
    /\ AuxIdle

\* The tick goes on with `t`; when that ends runHealthCheck, a main that
\* awaits it resumes.
TickBecomes(t) ==
    /\ tick' = t
    /\ mainPc' = IF t = NoTick /\ mainPc = "awaitCheck"
                 THEN mainResumed(cfg.daemon) ELSE mainPc

\* main calls runHealthCheck: a tick begins with the first condition.
MainCallsRunHealthCheck ==
    /\ mainPc = "check"
    /\ tick' = [ci |-> 1, stage |-> "detect", startedAt |-> 0]
    /\ ran' = {} /\ detected' = {} /\ performed' = {}
    /\ mainPc' = mainAfterCall(cfg.daemon)
    /\ UNCHANGED <<cfg, now, history, orchActive, restartsRunning>>
    /\ UNCHANGED restartVars
    /\ UNCHANGED detectVars
    /\ UNCHANGED auxVars

\* Faulty variant of afterDetect: the catch block goes on to executeRestart.
afterDetectThrowRestarts(out) ==
    IF out \in {"detected", "throws"} THEN "restart" ELSE "next"

\* The body of runHealthCheck's try once condition.detect() has settled:
\* executeRestart is called when result.detected; when nothing was detected,
\* or the call threw (the catch logs it), the loop goes on.
afterDetect(out) == IF out = "detected" THEN "restart" ELSE "next"

\* condition.detect() settles: nothing detected or an exception (logged) go
\* on to the next condition; a detected condition calls executeRestart.
DetectorReturns ==
    /\ tick.stage = "detect"
    /\ \E out \in DetectOutcomes :
          /\ ran' = ran \cup {tick.ci}
          /\ detected' = IF out = "detected" THEN detected \cup {tick.ci}
                         ELSE detected
          /\ lastCall' = [op |-> "detect", ci |-> tick.ci, returned |-> out]
          /\ IF afterDetect(out) = "restart"
             THEN /\ tick' = [tick EXCEPT !.stage = "restart"]
                  /\ orchActive' = orchActive + 1
                  /\ UNCHANGED mainPc
             ELSE /\ TickBecomes(nextCondition(tick.ci))
                  /\ UNCHANGED orchActive
    /\ UNCHANGED <<cfg, performed, now, history, restartsRunning>>
    /\ UNCHANGED restartVars
    /\ UNCHANGED <<lastOrdinal, lastChanged, lastKnownOrdinal,
                   lastOrdinalChangeTime, snapshotStallMinutes, forkLayer>>
    /\ UNCHANGED auxVars

\* executeRestart skips (cooldown or rate limit) and returns false.
OrchestratorSkips ==
    /\ tick.stage = "restart"
    /\ Gate(now, history, cfg) # "run"
    /\ orchActive' = orchActive - 1
    /\ TickBecomes(afterExecuteRestart(FALSE, tick.ci))
    /\ lastCall' = [op |-> "executeRestart", at |-> now,
                    returned |-> Gate(now, history, cfg)]
    /\ UNCHANGED <<cfg, ran, detected, performed, now, history, restartsRunning>>
    /\ UNCHANGED restartVars
    /\ UNCHANGED <<lastOrdinal, lastChanged, lastKnownOrdinal,
                   lastOrdinalChangeTime, snapshotStallMinutes, forkLayer>>
    /\ UNCHANGED auxVars

\* executeRestart passes the gate and begins the restart procedure.
OrchestratorStarts ==
    /\ tick.stage = "restart"
    /\ Gate(now, history, cfg) = "run"
    /\ tick' = [tick EXCEPT !.stage = "restarting", !.startedAt = now]
    /\ restartsRunning' = restartsRunning + 1
    /\ lastCall' = [op |-> "executeRestart", at |-> now, returned |-> "run"]
    /\ UNCHANGED <<cfg, mainPc, ran, detected, performed, now, history, orchActive>>
    /\ UNCHANGED restartVars
    /\ UNCHANGED <<lastOrdinal, lastChanged, lastKnownOrdinal,
                   lastOrdinalChangeTime, snapshotStallMinutes, forkLayer>>
    /\ UNCHANGED auxVars

\* The restart procedure ends after d minutes; its record is kept and
\* executeRestart returns true.
OrchestratorFinishes ==
    /\ tick.stage = "restarting"
    /\ \E d \in 0..1, outcome \in {"success", "failed"} :
          /\ now + d <= LastMinute(cfg)
          /\ now' = now + d
          /\ history' = Append(history, [startedAt |-> tick.startedAt,
                                         finishedAt |-> now + d,
                                         outcome |-> outcome])
    /\ restartsRunning' = restartsRunning - 1
    /\ orchActive' = orchActive - 1
    /\ performed' = performed \cup {tick.ci}
    /\ TickBecomes(afterExecuteRestart(TRUE, tick.ci))
    /\ UNCHANGED <<cfg, ran, detected>>
    /\ UNCHANGED restartVars
    /\ UNCHANGED detectVars
    /\ UNCHANGED auxVars

\* An exception escapes runHealthCheck (it is raised outside the try/catch
\* of the loop over the conditions): the tick ends and the awaiting main
\* resumes with the rejection.
RunHealthCheckThrows ==
    /\ tick.stage = "detect"
    /\ mainPc = "awaitCheck"
    /\ tick' = NoTick
    /\ mainPc' = mainAfterThrow(cfg.daemon)
    /\ lastCall' = [op |-> "runHealthCheck", at |-> now, returned |-> "throws"]
    /\ UNCHANGED <<cfg, ran, detected, performed, now, history, orchActive,
                   restartsRunning>>
    /\ UNCHANGED restartVars
    /\ UNCHANGED <<lastOrdinal, lastChanged, lastKnownOrdinal,
                   lastOrdinalChangeTime, snapshotStallMinutes, forkLayer>>
    /\ UNCHANGED auxVars

\* The `await notify(config, ...)` of the daemon loop's catch block settles.
NotifySettles ==
    /\ mainPc = "notify"
    /\ \E outcome \in NotifyOutcomes :
          /\ mainPc' = mainAfterNotify(outcome)
          /\ lastCall' = [op |-> "notify", at |-> now, returned |-> outcome]
    /\ UNCHANGED <<cfg, tick, ran, detected, performed, now, history,
                   orchActive, restartsRunning>>
    /\ UNCHANGED restartVars
    /\ UNCHANGED <<lastOrdinal, lastChanged, lastKnownOrdinal,
                   lastOrdinalChangeTime, snapshotStallMinutes, forkLayer>>
    /\ UNCHANGED auxVars

\* The inter-tick setTimeout of healthCheckIntervalSeconds fires.
Sleep ==
    /\ mainPc = "sleep"
    /\ now + cfg.healthCheckIntervalSeconds \div 60 <= LastMinute(cfg)
    /\ now' = now + cfg.healthCheckIntervalSeconds \div 60
    /\ mainPc' = "check"
    /\ UNCHANGED <<cfg, tick, ran, detected, performed, history, orchActive,
                   restartsRunning>>
    /\ UNCHANGED restartVars
    /\ UNCHANGED detectVars
    /\ UNCHANGED auxVars

MNext ==
    \/ MainCallsRunHealthCheck
    \/ DetectorReturns
    \/ OrchestratorSkips
    \/ OrchestratorStarts
    \/ OrchestratorFinishes
    \/ RunHealthCheckThrows
    \/ NotifySettles
    \/ Sleep

MonitorSpec == MInit /\ [][MNext]_vars


\* ------------------------------------ src/conditions/forked-cluster.ts
\* detectForkedCluster: the layers checked, in order.
forkLayers == <<"ml0", "cl1", "dl1">>

\* getClusterInfo(ip, port): the members a node reports; [] when the probe
\* fails.
ClusterInfos == {<<>>, <<"a">>, <<"b", "a">>}

\* hashClusterPOV: sha256 over the JSON of the sorted peer ids, cut to 12
\* hex digits; the digest is taken to be collision-free on the ids explored,
\* so it is represented by the sorted id list it is computed from.
hashClusterPOV(members) == [tag |-> "sha256", ids |-> SortIds(members)]
UnreachableHash == [tag |-> "unreachable", ids |-> <<>>]
UndefinedHash == [tag |-> "undefined", ids |-> <<>>]

\* checkLayerFork, first loop: one pov per configured node.
povsOf(nodes, infos) ==
    [i \in DOMAIN nodes |->
        [ip |-> nodes[i],
         hash |-> IF Len(infos[i]) = 0 THEN UnreachableHash
                  ELSE hashClusterPOV(infos[i]),
         members |-> infos[i]]]

\* freq[p.hash] = (freq[p.hash] ?? 0) + 1, the entries in insertion order.
RECURSIVE CountHash(_, _)
CountHash(freq, h) ==
    IF freq = <<>> THEN <<[hash |-> h, count |-> 1]>>
    ELSE IF Head(freq).hash = h
         THEN <<[hash |-> h, count |-> Head(freq).count + 1]>> \o Tail(freq)
         ELSE <<Head(freq)>> \o CountHash(Tail(freq), h)

RECURSIVE freqOf(_)
freqOf(povs) ==
    IF povs = <<>> THEN <<>>
    ELSE CountHash(freqOf(SubSeq(povs, 1, Len(povs) - 1)), povs[Len(povs)].hash)

\* Object.entries(freq).sort((a, b) => b[1] - a[1]): a stable sort by
\* descending count.
RECURSIVE InsertByCount(_, _)
InsertByCount(e, s) ==
    IF s = <<>> THEN <<e>>
    ELSE IF Head(s).count >= e.count
         THEN <<Head(s)>> \o InsertByCount(e, Tail(s))
         ELSE <<e>> \o s

RECURSIVE SortByCount(_)
SortByCount(freq) ==
    IF freq = <<>> THEN <<>>
    ELSE InsertByCount(freq[Len(freq)],
                       SortByCount(SubSeq(freq, 1, Len(freq) - 1)))

majorityHashOf(povs) ==
    LET sorted == SortByCount(freqOf(povs))
    IN  IF sorted = <<>> THEN UndefinedHash ELSE sorted[1].hash

RECURSIVE IpsOffMajority(_, _)
IpsOffMajority(povs, h) ==
    IF povs = <<>> THEN <<>>
    ELSE IF Head(povs).hash # h
         THEN <<Head(povs).ip>> \o IpsOffMajority(Tail(povs), h)
         ELSE IpsOffMajority(Tail(povs), h)

\* checkLayerFork: { forked, minorityNodes } of one layer.
checkLayerFork(nodes, infos) ==
    LET povs == povsOf(nodes, infos)
        minorityNodes == IpsOffMajority(povs, majorityHashOf(povs))
    IN  [forked |-> Len(minorityNodes) > 0, minorityNodes |-> minorityNodes]

\* detectForkedCluster: the DetectionResult of a forked layer, of no fork at
\* all, and the placeholder while further layers are still to be checked.
forkedResult(nodes, layer, r) ==
    [detected |-> TRUE, condition |-> "ForkedCluster",
     restartScope |-> IF Len(r.minorityNodes) >= Len(nodes) - 1
                      THEN "full-layer" ELSE "individual-node",
     affectedNodes |-> r.minorityNodes, affectedLayers |-> <<layer>>]
noForkResult ==
    [detected |-> FALSE, condition |-> "ForkedCluster", restartScope |-> "none",
     affectedNodes |-> <<>>, affectedLayers |-> <<>>]
notReturned ==
    [detected |-> FALSE, condition |-> "pending", restartScope |-> "none",
     affectedNodes |-> <<>>, affectedLayers |-> <<>>]

\* Faulty variant of nextForkLayer: a forked layer does not end the loop.
nextForkLayerNoReturn(forked, i) ==
    IF i = Len(forkLayers) THEN 1 ELSE i + 1

\* detectForkedCluster's loop after layer i was checked: the `return` of a
\* forked layer and the end of the loop leave the function (the next call
\* starts with the first layer), otherwise the next layer is checked.
nextForkLayer(forked, i) ==
    IF forked \/ i = Len(forkLayers) THEN 1 ELSE i + 1

\* One turn of detectForkedCluster's loop: checkLayerFork on the next layer;
\* a forked layer returns at once, the last layer returns "no fork".
CheckLayerFork ==
    /\ \E infos \in [1..n -> ClusterInfos] :
          LET layer == forkLayers[forkLayer]
              r == checkLayerFork(NodeList(n), infos)
          IN  /\ lastCall' =
                    [op |-> "checkLayerFork", layer |-> layer,
                     povs |-> povsOf(NodeList(n), infos),
                     majorityHash |-> majorityHashOf(povsOf(NodeList(n), infos)),
                     result |-> r,
                     returned |-> IF r.forked
                                  THEN forkedResult(NodeList(n), layer, r)
                                  ELSE IF forkLayer = Len(forkLayers)
                                       THEN noForkResult ELSE notReturned]
              /\ forkLayer' = nextForkLayer(r.forked, forkLayer)
    /\ UNCHANGED <<lastOrdinal, lastChanged, lastKnownOrdinal,
                   lastOrdinalChangeTime, snapshotStallMinutes>>
    /\ UNCHANGED restartVars
    /\ UNCHANGED monitorVars
    /\ UNCHANGED auxVars

ForkNext == CheckLayerFork

ForkSpec == Init /\ [][ForkNext]_vars


\* ------------------------------------- snapshot.ts: StallTracker, stalls
\* The layers whose ordinals are fetched (fetchML0Ordinal, fetchGL0Ordinal)
\* and the ordinals a node may report.
TrackerLayers == {"ML0", "GL0"}
Ordinals == 0..MaxOrdinal

\* StallTracker.key: `${nodeId}:${layer}`.
key(nodeId, layer) == <<nodeId, layer>>

\* Map.prototype.set
MapSet(f, k, v) == [x \in DOMAIN f \cup {k} |-> IF x = k THEN v ELSE f[x]]

\* Faulty variant of update: any ordinal different from the recorded one is
\* taken.
updateOnAnyChange(snap, lo, lc, t) ==
    LET k == key(snap.nodeId, snap.layer)
    IN  IF k \notin DOMAIN lo \/ snap.ordinal # lo[k]
        THEN [lastOrdinal |-> MapSet(lo, k, snap.ordinal),
              lastChanged |-> MapSet(lc, k, t), returned |-> TRUE]
        ELSE [lastOrdinal |-> lo, lastChanged |-> lc, returned |-> FALSE]

\* Faulty variant of update: an equal ordinal counts as an advance.
updateOnEqual(snap, lo, lc, t) ==
    LET k == key(snap.nodeId, snap.layer)
    IN  IF k \notin DOMAIN lo \/ snap.ordinal >= lo[k]
        THEN [lastOrdinal |-> MapSet(lo, k, snap.ordinal),
              lastChanged |-> MapSet(lc, k, t), returned |-> TRUE]
        ELSE [lastOrdinal |-> lo, lastChanged |-> lc, returned |-> FALSE]

\* Faulty variant of update: an advance is recorded without its time (the
\* time is stored only when the key is first seen).
updateKeepsChanged(snap, lo, lc, t) ==
    LET k == key(snap.nodeId, snap.layer)
    IN  IF k \notin DOMAIN lo
        THEN [lastOrdinal |-> MapSet(lo, k, snap.ordinal),
              lastChanged |-> MapSet(lc, k, t), returned |-> TRUE]
        ELSE IF snap.ordinal > lo[k]
        THEN [lastOrdinal |-> MapSet(lo, k, snap.ordinal),
              lastChanged |-> lc, returned |-> TRUE]
        ELSE [lastOrdinal |-> lo, lastChanged |-> lc, returned |-> FALSE]

\* Faulty variant of update: the ordinal of every observation is stored, so
\* the comparison is with the previous observation, not with the highest.
updateAgainstPrevious(snap, lo, lc, t) ==
    LET k == key(snap.nodeId, snap.layer)
    IN  IF k \notin DOMAIN lo \/ snap.ordinal > lo[k]
        THEN [lastOrdinal |-> MapSet(lo, k, snap.ordinal),
              lastChanged |-> MapSet(lc, k, t), returned |-> TRUE]
        ELSE [lastOrdinal |-> MapSet(lo, k, snap.ordinal),
              lastChanged |-> lc, returned |-> FALSE]

\* StallTracker.update at time t on the Maps lo (lastOrdinal) and lc
\* (lastChanged): the Maps afterwards and the value returned.
update(snap, lo, lc, t) ==
    LET k == key(snap.nodeId, snap.layer)
    IN  IF k \notin DOMAIN lo \/ snap.ordinal > lo[k]
        THEN [lastOrdinal |-> MapSet(lo, k, snap.ordinal),
              lastChanged |-> MapSet(lc, k, t), returned |-> TRUE]
        ELSE [lastOrdinal |-> lo, lastChanged |-> lc, returned |-> FALSE]

\* StallTracker.staleSecs: null when the key was never updated.
staleSecs(nodeId, layer, lc, t) ==
    LET k == key(nodeId, layer)
    IN  IF k \notin DOMAIN lc THEN [null |-> TRUE, secs |-> 0]
        ELSE [null |-> FALSE, secs |-> t - lc[k]]

\* Faulty variant of stalledNodesOf: a node never observed counts as stalled.
RECURSIVE stalledNodesOfNullCounts(_, _, _, _, _)
stalledNodesOfNullCounts(nodes, layer, lc, t, thresholdSec) ==
    IF nodes = <<>> THEN <<>>
    ELSE LET secs == staleSecs(Head(nodes), layer, lc, t)
             rest == stalledNodesOfNullCounts(Tail(nodes), layer, lc, t,
                                              thresholdSec)
         IN  IF secs.null \/ secs.secs >= thresholdSec
             THEN <<Head(nodes)>> \o rest ELSE rest

\* detectClusterStall: nodes.filter(secs !== null && secs >= thresholdSec).
RECURSIVE stalledNodesOf(_, _, _, _, _)
stalledNodesOf(nodes, layer, lc, t, thresholdSec) ==
    IF nodes = <<>> THEN <<>>
    ELSE LET secs == staleSecs(Head(nodes), layer, lc, t)
             rest == stalledNodesOf(Tail(nodes), layer, lc, t, thresholdSec)
         IN  IF ~secs.null /\ secs.secs >= thresholdSec
             THEN <<Head(nodes)>> \o rest ELSE rest

NoEvent ==
    [condition |-> "none", layer |-> "none", nodeIds |-> <<>>,
     suggestedAction |-> "none"]

\* detectClusterStall: the event, or null (NoEvent).
detectClusterStall(layer, nodes, lc, t, thresholdSec) ==
    LET stalledNodes == stalledNodesOf(nodes, layer, lc, t, thresholdSec)
    IN  IF Len(stalledNodes) = Len(nodes) /\ Len(nodes) > 0
        THEN [condition |-> "SNAPSHOT_STALL", layer |-> layer,
              nodeIds |-> stalledNodes, suggestedAction |-> "FullMetagraph"]
        ELSE NoEvent

\* The tracker is exercised on clusters of up to MaxNodes - 2 nodes, over
\* the first MaxTime - 3 seconds, with ML0 readings of every node (no GL0
\* reading is fed to it; GL0 is asked for by detectClusterStall only).
TrackerReadings(nodes) == {<<nodes[i], "ML0">> : i \in DOMAIN nodes}

TrackerInit ==
    /\ n \in 1..(MaxNodes - 2)
    /\ RestartIdle
    /\ MonitorIdle
    /\ DetectIdle
    /\ AuxIdle

\* tracker.update(snap) with a fresh reading of one node and layer.
TrackerUpdate ==
    /\ \E reading \in TrackerReadings(NodeList(n)), ordinal \in Ordinals :
          LET snap == [nodeId |-> reading[1], layer |-> reading[2],
                       ordinal |-> ordinal]
              r == update(snap, lastOrdinal, lastChanged, now)
          IN  /\ lastOrdinal' = r.lastOrdinal
              /\ lastChanged' = r.lastChanged
              /\ lastCall' = [op |-> "update", snap |-> snap,
                              returned |-> r.returned]
    /\ UNCHANGED <<lastKnownOrdinal, lastOrdinalChangeTime,
                   snapshotStallMinutes, forkLayer>>
    /\ UNCHANGED restartVars
    /\ UNCHANGED monitorVars
    /\ UNCHANGED auxVars

\* detectClusterStall(layer, nodes, tracker, thresholdSec) on the first k
\* configured nodes.
DetectClusterStall ==
    /\ \E layer \in TrackerLayers, k \in 0..n, thresholdSec \in 1..2 :
          lastCall' = [op |-> "detectClusterStall", layer |-> layer,
                       nodes |-> NodeList(k), thresholdSec |-> thresholdSec,
                       returned |-> detectClusterStall(layer, NodeList(k),
                                        lastChanged, now, thresholdSec)]
    /\ UNCHANGED <<lastOrdinal, lastChanged, lastKnownOrdinal,
                   lastOrdinalChangeTime, snapshotStallMinutes, forkLayer>>
    /\ UNCHANGED restartVars
    /\ UNCHANGED monitorVars
    /\ UNCHANGED auxVars

\* One second of wall-clock time passes between two calls.
TrackerClock ==
    /\ now < MaxTime - 3
    /\ now' = now + 1
    /\ lastCall' = NoCall
    /\ UNCHANGED <<lastOrdinal, lastChanged, lastKnownOrdinal,
                   lastOrdinalChangeTime, snapshotStallMinutes, forkLayer>>
    /\ UNCHANGED restartVars
    /\ UNCHANGED <<cfg, mainPc, tick, ran, detected, performed, history,
                   orchActive, restartsRunning>>
    /\ UNCHANGED auxVars

TrackerNext ==
    \/ TrackerUpdate
    \/ DetectClusterStall
    \/ TrackerClock

TrackerSpec == TrackerInit /\ [][TrackerNext]_vars


\* Faulty variant of detectStalls: the stall test is made before the tracker
\* is updated with the fresh readings.
detectStallsBeforeUpdate(snapshots, lo, lc, t, thresholdSec) ==
    LET RECURSIVE updateAll(_, _, _)
        updateAll(snaps, o, c) ==
            IF snaps = <<>> THEN [lastOrdinal |-> o, lastChanged |-> c]
            ELSE LET r == update(Head(snaps), o, c, t)
                 IN  updateAll(Tail(snaps), r.lastOrdinal, r.lastChanged)
        tracker == updateAll(snapshots, lo, lc)
        RECURSIVE eventsOf(_)
        eventsOf(snaps) ==
            IF snaps = <<>> THEN <<>>
            ELSE LET snap == Head(snaps)
                     secs == staleSecs(snap.nodeId, snap.layer, lc, t)
                 IN  IF ~secs.null /\ secs.secs >= thresholdSec
                     THEN <<[condition |-> "SNAPSHOT_STALL", layer |-> snap.layer,
                             nodeIds |-> <<snap.nodeId>>,
                             suggestedAction |-> "FullMetagraph"]>>
                              \o eventsOf(Tail(snaps))
                     ELSE eventsOf(Tail(snaps))
    IN  [lastOrdinal |-> tracker.lastOrdinal,
         lastChanged |-> tracker.lastChanged,
         events |-> eventsOf(snapshots)]

\* detectStalls at time t (seconds): tracker.update on every fresh reading,
\* then one SNAPSHOT_STALL event per reading whose key has
\* staleSecs >= thresholdSec; the tracker's Maps afterwards and the events.
detectStalls(snapshots, lo, lc, t, thresholdSec) ==
    LET RECURSIVE updateAll(_, _, _)
        updateAll(snaps, o, c) ==
            IF snaps = <<>> THEN [lastOrdinal |-> o, lastChanged |-> c]
            ELSE LET r == update(Head(snaps), o, c, t)
                 IN  updateAll(Tail(snaps), r.lastOrdinal, r.lastChanged)
        tracker == updateAll(snapshots, lo, lc)
        RECURSIVE eventsOf(_)
        eventsOf(snaps) ==
            IF snaps = <<>> THEN <<>>
            ELSE LET snap == Head(snaps)
                     secs == staleSecs(snap.nodeId, snap.layer,
                                       tracker.lastChanged, t)
                 IN  IF ~secs.null /\ secs.secs >= thresholdSec
                     THEN <<[condition |-> "SNAPSHOT_STALL", layer |-> snap.layer,
                             nodeIds |-> <<snap.nodeId>>,
                             suggestedAction |-> "FullMetagraph"]>>
                              \o eventsOf(Tail(snaps))
                     ELSE eventsOf(Tail(snaps))
    IN  [lastOrdinal |-> tracker.lastOrdinal,
         lastChanged |-> tracker.lastChanged,
         events |-> eventsOf(snapshots)]

\* History of the readings, kept beside the program's state: for a key, the
\* ordinal last observed and since when it has been observed unchanged, the
\* highest ordinal observed and since when, whether the last reading was
\* above the one before it, and whether a stall is due (the ordinal was seen
\* unchanged for the threshold and no later reading was above the one before
\* it).
observe(obs, k, ordinal, t, threshold) ==
    IF k \notin DOMAIN obs
    THEN MapSet(obs, k, [ordinal |-> ordinal, since |-> t, highest |-> ordinal,
                         highestSince |-> t, advanced |-> FALSE,
                         due |-> FALSE])
    ELSE LET o == obs[k]
         IN  MapSet(obs, k,
                [ordinal |-> ordinal,
                 since |-> IF ordinal = o.ordinal THEN o.since ELSE t,
                 highest |-> IF ordinal > o.highest THEN ordinal ELSE o.highest,
                 highestSince |-> IF ordinal > o.highest THEN t
                                  ELSE o.highestSince,
                 advanced |-> ordinal > o.ordinal,
                 due |-> IF ordinal > o.ordinal THEN FALSE
                         ELSE o.due \/ (ordinal = o.ordinal
                                         /\ t - o.since >= threshold)])


\* ---------------------------------- src/conditions/snapshots-stopped.ts
\* getLatestOrdinal(ip, port, 'ml0'): the node's ordinal, -1 when the probe
\* fails.
LatestOrdinals == {-1} \cup Ordinals

\* Faulty variant of currentOrdinalOf: the loop has no `break`, the last
\* reachable node's ordinal is kept.
RECURSIVE currentOrdinalOfLast(_)
currentOrdinalOfLast(ords) ==
    IF ords = <<>> THEN -1
    ELSE IF ords[Len(ords)] >= 0 THEN ords[Len(ords)]
         ELSE currentOrdinalOfLast(SubSeq(ords, 1, Len(ords) - 1))

\* Faulty variant of currentOrdinalOf: an ordinal of zero is taken for a
\* failed probe (`ordinal > 0`).
RECURSIVE currentOrdinalOfPositive(_)
currentOrdinalOfPositive(ords) ==
    IF ords = <<>> THEN -1
    ELSE IF Head(ords) > 0 THEN Head(ords)
         ELSE currentOrdinalOfPositive(Tail(ords))

\* detectSnapshotsStopped, "try all nodes until we get an ordinal": the
\* first non-negative ordinal in configured order, -1 when there is none.
RECURSIVE currentOrdinalOf(_)
currentOrdinalOf(ords) ==
    IF ords = <<>> THEN -1
    ELSE IF Head(ords) >= 0 THEN Head(ords)
         ELSE currentOrdinalOf(Tail(ords))

notStalledResult(details) ==
    [detected |-> FALSE, condition |-> "SnapshotsStopped", details |-> details,
     restartScope |-> "none", affectedNodes |-> <<>>, affectedLayers |-> <<>>]

\* Faulty variant of detectSnapshotsStopped: a stall is reported only when
\* the ordinal has been unchanged for more than the threshold.
detectSnapshotsStoppedStrictlyOver(nodes, ords, known, changed, t, stallMinutes) ==
    LET currentOrdinal == currentOrdinalOf(ords)
    IN  IF currentOrdinal < 0
        THEN [lastKnownOrdinal |-> known, lastOrdinalChangeTime |-> changed,
              result |-> notStalledResult("ML0 unreachable")]
        ELSE IF currentOrdinal # known
        THEN [lastKnownOrdinal |-> currentOrdinal, lastOrdinalChangeTime |-> t,
              result |-> notStalledResult("")]
        ELSE IF t - changed > stallMinutes
        THEN [lastKnownOrdinal |-> known, lastOrdinalChangeTime |-> changed,
              result |-> [detected |-> TRUE, condition |-> "SnapshotsStopped",
                          details |-> "stalled",
                          restartScope |-> "full-metagraph",
                          affectedNodes |-> nodes,
                          affectedLayers |-> <<"ml0", "cl1", "dl1">>]]
        ELSE [lastKnownOrdinal |-> known, lastOrdinalChangeTime |-> changed,
              result |-> notStalledResult("")]

\* Faulty variant of detectSnapshotsStopped: a tick on which no node is
\* reachable restarts the stall clock.
detectSnapshotsStoppedClockPaused(nodes, ords, known, changed, t, stallMinutes) ==
    LET currentOrdinal == currentOrdinalOf(ords)
    IN  IF currentOrdinal < 0
        THEN [lastKnownOrdinal |-> known, lastOrdinalChangeTime |-> t,
              result |-> notStalledResult("ML0 unreachable")]
        ELSE IF currentOrdinal # known
        THEN [lastKnownOrdinal |-> currentOrdinal, lastOrdinalChangeTime |-> t,
              result |-> notStalledResult("")]
        ELSE IF t - changed >= stallMinutes
        THEN [lastKnownOrdinal |-> known, lastOrdinalChangeTime |-> changed,
              result |-> [detected |-> TRUE, condition |-> "SnapshotsStopped",
                          details |-> "stalled",
                          restartScope |-> "full-metagraph",
                          affectedNodes |-> nodes,
                          affectedLayers |-> <<"ml0", "cl1", "dl1">>]]
        ELSE [lastKnownOrdinal |-> known, lastOrdinalChangeTime |-> changed,
              result |-> notStalledResult("")]

\* detectSnapshotsStopped at time t (minutes) with the nodes answering ords:
\* the module state afterwards and the DetectionResult.
detectSnapshotsStopped(nodes, ords, known, changed, t, stallMinutes) ==
    LET currentOrdinal == currentOrdinalOf(ords)
    IN  IF currentOrdinal < 0
        THEN [lastKnownOrdinal |-> known, lastOrdinalChangeTime |-> changed,
              result |-> notStalledResult("ML0 unreachable")]
        ELSE IF currentOrdinal # known
        THEN [lastKnownOrdinal |-> currentOrdinal, lastOrdinalChangeTime |-> t,
              result |-> notStalledResult("")]
        ELSE IF t - changed >= stallMinutes
        THEN [lastKnownOrdinal |-> known, lastOrdinalChangeTime |-> changed,
              result |-> [detected |-> TRUE, condition |-> "SnapshotsStopped",
                          details |-> "stalled",
                          restartScope |-> "full-metagraph",
                          affectedNodes |-> nodes,
                          affectedLayers |-> <<"ml0", "cl1", "dl1">>]]
        ELSE [lastKnownOrdinal |-> known, lastOrdinalChangeTime |-> changed,
              result |-> notStalledResult("")]

\* The module is loaded at time 0 in a process with up to MaxNodes - 2 nodes
\* and a stall threshold of one or two minutes.
StallInit ==
    /\ n \in 1..(MaxNodes - 2)
    /\ RestartIdle
    /\ MonitorIdle
    /\ TrackerEmpty /\ StallModuleLoaded
    /\ snapshotStallMinutes \in 1..2 /\ forkLayer = 1 /\ lastCall = NoCall
    /\ AuxIdle

\* History of the outages, kept beside the program's state: while no node
\* answers, the module state at the first tick that found none reachable and
\* whether the stall clock was then younger than the threshold (early);
\* forgotten at the first tick that reaches a node.
observeOutage(obs, current, known, changed, t, threshold) ==
    IF current >= 0
    THEN [k \in DOMAIN obs \ {"outage"} |-> obs[k]]
    ELSE IF "outage" \in DOMAIN obs THEN obs
    ELSE MapSet(obs, "outage", [early |-> t - changed < threshold,
                                known |-> known, changed |-> changed])

\* runHealthCheck calls detectSnapshotsStopped. The call remembers the outage
\* that was under way when it was made (outage, empty when there was none).
DetectSnapshotsStopped ==
    /\ \E ords \in [1..n -> LatestOrdinals] :
          LET r == detectSnapshotsStopped(NodeList(n), ords, lastKnownOrdinal,
                       lastOrdinalChangeTime, now, snapshotStallMinutes)
          IN  /\ lastKnownOrdinal' = r.lastKnownOrdinal
              /\ lastOrdinalChangeTime' = r.lastOrdinalChangeTime
              /\ lastCall' = [op |-> "detectSnapshotsStopped", ords |-> ords,
                              before |-> [lastKnownOrdinal |-> lastKnownOrdinal,
                                          lastOrdinalChangeTime |->
                                              lastOrdinalChangeTime],
                              outage |-> IF "outage" \in DOMAIN observed
                                         THEN <<observed["outage"]>>
                                         ELSE <<>>,
                              returned |-> r.result]
              /\ observed' =
                    observeOutage(
                        IF currentOrdinalOf(ords) < 0 THEN observed
                        ELSE observe(observed, "cluster",
                                     currentOrdinalOf(ords), now,
                                     snapshotStallMinutes),
                        currentOrdinalOf(ords), lastKnownOrdinal,
                        lastOrdinalChangeTime, now, snapshotStallMinutes)
    /\ UNCHANGED <<lastOrdinal, lastChanged, snapshotStallMinutes, forkLayer>>
    /\ UNCHANGED restartVars
    /\ UNCHANGED monitorVars
    /\ UNCHANGED <<monitorConfig, notifyCall>>

\* A minute passes before the next tick.
StallClock ==
    /\ now < MaxTime
    /\ now' = now + 1
    /\ lastCall' = NoCall
    /\ UNCHANGED <<lastOrdinal, lastChanged, lastKnownOrdinal,
                   lastOrdinalChangeTime, snapshotStallMinutes, forkLayer>>
    /\ UNCHANGED restartVars
    /\ UNCHANGED <<cfg, mainPc, tick, ran, detected, performed, history,
                   orchActive, restartsRunning>>
    /\ UNCHANGED auxVars

StallNext ==
    \/ DetectSnapshotsStopped
    \/ StallClock

StallSpec == StallInit /\ [][StallNext]_vars


\* --------------------------- stall detection over a sequence of ticks
\* health-monitor's getConfig: the stall threshold (STALL_THRESHOLD_SEC) and
\* whether the Telegram credentials and the Discord webhook are set.
MonitorConfigs ==
    [snapshotStallThresholdSec : 1..2, telegram : BOOLEAN, discord : BOOLEAN]

\* The process is either the health-monitor package's monitor, which loads a
\* MonitorConfig and calls detectStalls on its ticks, or src/index.ts, which
\* loads a Config and calls detectSnapshotsStopped.
StallsInit ==
    /\ RestartIdle
    /\ MonitorIdle
    /\ TrackerEmpty /\ StallModuleLoaded
    /\ forkLayer = 1 /\ lastCall = NoCall
    /\ observed = <<>> /\ notifyCall = NoNotify
    /\ \/ /\ n \in 1..(MaxNodes - 3)
          /\ monitorConfig \in {c \in MonitorConfigs : ~c.telegram /\ ~c.discord}
          /\ snapshotStallMinutes = 0
       \/ /\ n \in 1..(MaxNodes - 3)
          /\ monitorConfig = NoMonitorConfig
          /\ snapshotStallMinutes \in 1..2

\* A tick of the health-monitor package: fetchML0Ordinal on every node (a
\* failed fetch gives no reading), then detectStalls on the fresh readings.
DetectStalls ==
    /\ monitorConfig # NoMonitorConfig
    /\ \E ords \in [1..n -> LatestOrdinals] :
          LET RECURSIVE fresh(_)
              fresh(i) ==
                  IF i > n THEN <<>>
                  ELSE IF ords[i] < 0 THEN fresh(i + 1)
                  ELSE <<[nodeId |-> NodeList(n)[i], layer |-> "ML0",
                          ordinal |-> ords[i]]>> \o fresh(i + 1)
              snapshots == fresh(1)
              RECURSIVE seen(_, _)
              seen(snaps, obs) ==
                  IF snaps = <<>> THEN obs
                  ELSE seen(Tail(snaps),
                            observe(obs, key(Head(snaps).nodeId, Head(snaps).layer),
                                    Head(snaps).ordinal, now,
                                    monitorConfig.snapshotStallThresholdSec))
              r == detectStalls(snapshots, lastOrdinal, lastChanged, now,
                                monitorConfig.snapshotStallThresholdSec)
          IN  /\ lastOrdinal' = r.lastOrdinal
              /\ lastChanged' = r.lastChanged
              /\ observed' = seen(snapshots, observed)
              /\ lastCall' = [op |-> "detectStalls", snapshots |-> snapshots,
                              returned |-> r.events]
    /\ UNCHANGED <<lastKnownOrdinal, lastOrdinalChangeTime,
                   snapshotStallMinutes, forkLayer>>
    /\ UNCHANGED restartVars
    /\ UNCHANGED monitorVars
    /\ UNCHANGED <<monitorConfig, notifyCall>>

\* The poll interval passes: a second for the health-monitor package (the
\* first MaxTime - 3 are explored), a minute for src/index.ts (the first
\* MaxTime - 2).
StallsClock ==
    /\ now < (IF monitorConfig = NoMonitorConfig THEN MaxTime - 2
              ELSE MaxTime - 3)
    /\ now' = now + 1
    /\ lastCall' = NoCall
    /\ UNCHANGED <<lastOrdinal, lastChanged, lastKnownOrdinal,
                   lastOrdinalChangeTime, snapshotStallMinutes, forkLayer>>
    /\ UNCHANGED restartVars
    /\ UNCHANGED <<cfg, mainPc, tick, ran, detected, performed, history,
                   orchActive, restartsRunning>>
    /\ UNCHANGED auxVars

StallsSpec ==
    StallsInit
        /\ [][\/ DetectStalls
              \/ monitorConfig = NoMonitorConfig /\ DetectSnapshotsStopped
              \/ StallsClock]_vars

\* ------------------------------- the tracker on one key's observations
\* History of the observations of one key: the time of the last one (at),
\* the largest gap between two consecutive ones (largestGap), whether their
\* ordinals have been strictly increasing (increasing), and the largest
\* value staleSecs has had at any moment since the first one (peak); the
\* highest ordinal observed (highest), the time of the first observation
\* that reached it (highestSince), whether the last observation was above
\* every earlier one (newMax), and whether an ordinal has dropped and then
\* grown again without passing the highest (regrown).
observeGap(obs, k, ordinal, t) ==
    IF k \notin DOMAIN obs
    THEN MapSet(obs, k, [ordinal |-> ordinal, at |-> t, largestGap |-> 0,
                         increasing |-> TRUE, count |-> 1, peak |-> 0,
                         highest |-> ordinal, highestSince |-> t,
                         newMax |-> TRUE, regrown |-> FALSE])
    ELSE LET o == obs[k]
         IN  MapSet(obs, k,
                [ordinal |-> ordinal, at |-> t,
                 largestGap |-> IF t - o.at > o.largestGap THEN t - o.at
                                ELSE o.largestGap,
                 increasing |-> o.increasing /\ ordinal > o.ordinal,
                 count |-> IF o.count < 3 THEN o.count + 1 ELSE 3,
                 peak |-> o.peak,
                 highest |-> IF ordinal > o.highest THEN ordinal ELSE o.highest,
                 highestSince |-> IF ordinal > o.highest THEN t
                                  ELSE o.highestSince,
                 newMax |-> ordinal > o.highest,
                 regrown |-> IF ordinal > o.highest THEN FALSE
                             ELSE o.regrown
                                    \/ (ordinal > o.ordinal
                                          /\ ordinal < o.highest)])

\* Ordinals of the observations: one more than Ordinals, so that a strictly
\* increasing sequence has up to three of them.
GapOrdinals == 0..(MaxOrdinal + 1)

\* One node, hence one key (node 1, ML0), is observed.
GapInit ==
    /\ n = 1
    /\ RestartIdle
    /\ MonitorIdle
    /\ DetectIdle
    /\ AuxIdle

\* tracker.update(snap) with the next observation of a node's ML0 ordinal.
GapUpdate ==
    /\ \E i \in 1..n, ordinal \in GapOrdinals :
          LET snap == [nodeId |-> NodeList(n)[i], layer |-> "ML0",
                       ordinal |-> ordinal]
              r == update(snap, lastOrdinal, lastChanged, now)
          IN  /\ lastOrdinal' = r.lastOrdinal
              /\ lastChanged' = r.lastChanged
              /\ observed' = observeGap(observed, key(snap.nodeId, snap.layer),
                                        ordinal, now)
              /\ lastCall' = [op |-> "update", snap |-> snap,
                              returned |-> r.returned]
    /\ UNCHANGED <<lastKnownOrdinal, lastOrdinalChangeTime,
                   snapshotStallMinutes, forkLayer>>
    /\ UNCHANGED restartVars
    /\ UNCHANGED monitorVars
    /\ UNCHANGED <<monitorConfig, notifyCall>>

\* A second passes (the first MaxTime - 1 are explored); tracker.staleSecs
\* of every observed key is read at the new moment.
GapClock ==
    /\ now < MaxTime - 1
    /\ now' = now + 1
    /\ observed' =
          [k \in DOMAIN observed |->
              LET secs == staleSecs(k[1], k[2], lastChanged, now + 1).secs
              IN  [observed[k] EXCEPT
                     !.peak = IF secs > @ THEN secs ELSE @]]
    /\ lastCall' = NoCall
    /\ UNCHANGED <<lastOrdinal, lastChanged, lastKnownOrdinal,
                   lastOrdinalChangeTime, snapshotStallMinutes, forkLayer>>
    /\ UNCHANGED restartVars
    /\ UNCHANGED <<cfg, mainPc, tick, ran, detected, performed, history,
                   orchActive, restartsRunning>>
    /\ UNCHANGED <<monitorConfig, notifyCall>>

\* tracker.reset(): both Maps are cleared; the history starts anew.
GapReset ==
    /\ lastOrdinal # <<>>
    /\ lastOrdinal' = <<>>
    /\ lastChanged' = <<>>
    /\ observed' = <<>>
    /\ lastCall' = [op |-> "reset"]
    /\ UNCHANGED <<lastKnownOrdinal, lastOrdinalChangeTime,
                   snapshotStallMinutes, forkLayer>>
    /\ UNCHANGED restartVars
    /\ UNCHANGED monitorVars
    /\ UNCHANGED <<monitorConfig, notifyCall>>

GapSpec == GapInit /\ [][GapUpdate \/ GapClock \/ GapReset]_vars



\* ------------------------------------- cluster.ts: detectGL0Fork (pure)
\* detectGL0Fork(states, timestamp): the event, or null (NoEvent).  The Map
\* ordinal -> nodeIds is walked in insertion order and the first of the
\* largest groups gives the majority ordinal.
detectGL0Fork(states) ==
    LET RECURSIVE ordinalCount(_)
        ordinalCount(ss) ==
            IF ss = <<>> THEN <<>>
            ELSE AddToGroup(ordinalCount(SubSeq(ss, 1, Len(ss) - 1)),
                            ss[Len(ss)].ordinal, ss[Len(ss)].nodeId)
        best == LargestGroup(ordinalCount(states), [key |-> 0, nodes |-> <<>>])
        RECURSIVE minorityOf(_)
        minorityOf(ss) ==
            IF ss = <<>> THEN <<>>
            ELSE IF Head(ss).ordinal # best.key
                 THEN <<Head(ss).nodeId>> \o minorityOf(Tail(ss))
                 ELSE minorityOf(Tail(ss))
        minorityNodes == minorityOf(states)
    IN  IF Len(states) < 2 THEN NoEvent
        ELSE IF minorityNodes = <<>> THEN NoEvent
        ELSE [condition |-> "FORK_DETECTED", layer |-> "GL0",
              nodeIds |-> minorityNodes, suggestedAction |-> "IndividualNode"]

\* detectGL0Fork is called with the GL0 ordinals of the first k nodes.
DetectGL0Fork ==
    /\ lastCall = NoCall
    /\ \E k \in 0..n :
          \E ords \in [1..k -> GapOrdinals] :
             LET states == [i \in 1..k |->
                               [nodeId |-> NodeList(n)[i], ordinal |-> ords[i]]]
             IN  lastCall' = [op |-> "detectGL0Fork", states |-> states,
                              returned |-> detectGL0Fork(states)]
    /\ UNCHANGED <<lastOrdinal, lastChanged, lastKnownOrdinal,
                   lastOrdinalChangeTime, snapshotStallMinutes, forkLayer>>
    /\ UNCHANGED restartVars
    /\ UNCHANGED monitorVars
    /\ UNCHANGED auxVars

GL0ForkSpec == Init /\ [][DetectGL0Fork \/ TrackerClock]_vars


\* ----------------------------------- src/conditions/hypergraph-health.ts
\* config.hypergraph: absent, or enabled / disabled with some L0 URLs.
HypergraphConfigs ==
    {[configured |-> FALSE, enabled |-> FALSE, l0Urls |-> 0]}
        \cup [configured : {TRUE}, enabled : BOOLEAN,
              l0Urls : 0..(MaxNodes - 2)]

\* What checkL0Fn does for one URL: resolve to null, resolve to the node's
\* info, or throw.
L0Probes == {"null", "info", "throws"}

\* A snapshot node's gl0 layer: absent, or present with `reachable` and a
\* clusterSize (-1: the field is undefined).
Gl0Layers ==
    {[present |-> FALSE, reachable |-> FALSE, clusterSize |-> 0]}
        \cup [present : {TRUE}, reachable : BOOLEAN,
              clusterSize : (-1)..(MaxNodes - 1)]

\* tryFirstSuccess(urls, fn): the index of the first URL whose probe gives a
\* non-null result, 0 (null) when every probe gives null or throws.
RECURSIVE tryFirstSuccess(_, _)
tryFirstSuccess(probes, i) ==
    IF i > Len(probes) THEN 0
    ELSE IF probes[i] = "info" THEN i
    ELSE tryFirstSuccess(probes, i + 1)

\* Faulty variant of detectHypergraphHealth: a disconnected GL0 asks for a
\* restart of the layer.
detectHypergraphHealthActuating(hgConfig, nodeCount, nodes, probes, hgCluster) ==
    LET res(d, details, scope) ==
            [detected |-> d, condition |-> "HypergraphHealth",
             details |-> details, restartScope |-> scope]
        ourGl0Nodes == SelectSeq(nodes, LAMBDA g : g.present /\ g.reachable)
        size(g) == IF g.clusterSize < 0 THEN 0 ELSE g.clusterSize
        RECURSIVE max(_)
        max(gs) == IF Len(gs) = 1 THEN size(gs[1])
                   ELSE LET m == max(Tail(gs))
                        IN  IF size(gs[1]) > m THEN size(gs[1]) ELSE m
    IN  IF ~(hgConfig.configured /\ hgConfig.enabled)
        THEN res(FALSE, "", "none")
        ELSE IF tryFirstSuccess(probes, 1) = 0
        THEN res(TRUE, "unreachable", "none")
        ELSE IF Len(ourGl0Nodes) = 0 THEN res(FALSE, "", "none")
        ELSE IF hgCluster = 0 THEN res(FALSE, "", "none")
        ELSE IF max(ourGl0Nodes) <= nodeCount
        THEN res(TRUE, "disconnected", "full-layer")
        ELSE res(FALSE, "", "none")

\* detectHypergraphHealth(config, snapshot, deps): hgConfig is
\* config.hypergraph, nodeCount config.nodes.length, nodes the gl0 layers of
\* snapshot.nodes, probes what checkL0Fn does per URL and hgCluster the
\* length of the array getClusterFn resolves to.
detectHypergraphHealth(hgConfig, nodeCount, nodes, probes, hgCluster) ==
    LET res(d, details, scope) ==
            [detected |-> d, condition |-> "HypergraphHealth",
             details |-> details, restartScope |-> scope]
        ourGl0Nodes == SelectSeq(nodes, LAMBDA g : g.present /\ g.reachable)
        size(g) == IF g.clusterSize < 0 THEN 0 ELSE g.clusterSize
        RECURSIVE max(_)
        max(gs) == IF Len(gs) = 1 THEN size(gs[1])
                   ELSE LET m == max(Tail(gs))
                        IN  IF size(gs[1]) > m THEN size(gs[1]) ELSE m
    IN  IF ~(hgConfig.configured /\ hgConfig.enabled)
        THEN res(FALSE, "", "none")
        ELSE IF tryFirstSuccess(probes, 1) = 0
        THEN res(TRUE, "unreachable", "none")
        ELSE IF Len(ourGl0Nodes) = 0 THEN res(FALSE, "", "none")
        ELSE IF hgCluster = 0 THEN res(FALSE, "", "none")
        ELSE IF max(ourGl0Nodes) <= nodeCount
        THEN res(TRUE, "disconnected", "none")
        ELSE res(FALSE, "", "none")

\* A process with up to MaxNodes - 2 configured nodes.
HypergraphInit ==
    /\ n \in 1..(MaxNodes - 2)
    /\ RestartIdle
    /\ MonitorIdle
    /\ DetectIdle
    /\ AuxIdle

\* detectHypergraphHealth is called with some configuration, a snapshot of
\* the configured nodes and some answers of the hypergraph endpoints.
DetectHypergraphHealth ==
    /\ lastCall = NoCall
    /\ \E hgConfig \in HypergraphConfigs, nodes \in [1..n -> Gl0Layers],
          hgCluster \in 0..1 :
          \E probes \in [1..hgConfig.l0Urls -> L0Probes] :
             lastCall' = [op |-> "detectHypergraphHealth",
                          hgConfig |-> hgConfig, nodes |-> nodes,
                          probes |-> probes, hgCluster |-> hgCluster,
                          returned |-> detectHypergraphHealth(hgConfig, n,
                                           nodes, probes, hgCluster)]
    /\ UNCHANGED <<lastOrdinal, lastChanged, lastKnownOrdinal,
                   lastOrdinalChangeTime, snapshotStallMinutes, forkLayer>>
    /\ UNCHANGED restartVars
    /\ UNCHANGED monitorVars
    /\ UNCHANGED auxVars

\* The caller has taken the DetectionResult; the next check may be made.
HypergraphResultTaken ==
    /\ lastCall # NoCall
    /\ lastCall' = NoCall
    /\ UNCHANGED <<lastOrdinal, lastChanged, lastKnownOrdinal,
                   lastOrdinalChangeTime, snapshotStallMinutes, forkLayer>>
    /\ UNCHANGED restartVars
    /\ UNCHANGED monitorVars
    /\ UNCHANGED auxVars

HypergraphSpec ==
    HypergraphInit /\ [][DetectHypergraphHealth \/ HypergraphResultTaken]_vars


\* --------------------------------------- health-monitor: src/notify.ts
\* notifyTelegram(event, config) up to its first await: it returns at once
\* without credentials; formatEvent is evaluated before the try block, so an
\* exception in it rejects the promise; otherwise the request is sent.
notifyTelegram(config, formats) ==
    IF ~config.telegram
    THEN [attempted |-> FALSE, outcome |-> "none", promise |-> "fulfilled"]
    ELSE IF ~formats
    THEN [attempted |-> FALSE, outcome |-> "formatThrows",
          promise |-> "rejected"]
    ELSE [attempted |-> TRUE, outcome |-> "pending", promise |-> "pending"]

\* notifyDiscord(event, config) up to its first await.
notifyDiscord(config) ==
    IF ~config.discord
    THEN [attempted |-> FALSE, outcome |-> "none", promise |-> "fulfilled"]
    ELSE [attempted |-> TRUE, outcome |-> "pending", promise |-> "pending"]

\* Faulty variant of notify: the deliveries are awaited with Promise.all.
notifyWithPromiseAll(telegram, discord) ==
    IF "rejected" \in {telegram.promise, discord.promise} THEN "raised"
    ELSE "returned"

\* notify: `await Promise.allSettled([...])` resumes when both promises have
\* settled and never throws.
notify(telegram, discord) == "returned"

NotifyInit ==
    /\ n = 1
    /\ RestartIdle
    /\ MonitorIdle
    /\ DetectIdle
    /\ monitorConfig \in MonitorConfigs
    /\ observed = <<>> /\ notifyCall = NoNotify

\* notify(event, config) is called: both deliveries are started, Telegram's
\* first, before notify awaits them.
NotifyCalled ==
    /\ notifyCall.pc \in {"idle", "returned"}
    /\ \E condition \in {"FORK_DETECTED", "SNAPSHOT_STALL", "NODE_UNREACHABLE"},
          formats \in BOOLEAN :
          notifyCall' = [pc |-> "awaiting", condition |-> condition,
                         telegram |-> notifyTelegram(monitorConfig, formats),
                         discord |-> notifyDiscord(monitorConfig)]
    /\ UNCHANGED <<monitorConfig, observed>>
    /\ UNCHANGED restartVars
    /\ UNCHANGED monitorVars
    /\ UNCHANGED detectVars

\* The fetch of one delivery settles: a 2xx response, another response
\* (logged), or a thrown error (caught and logged); the delivery's promise
\* fulfils.
DeliverySettles ==
    /\ notifyCall.pc = "awaiting"
    /\ \E outcome \in {"ok", "badStatus", "throws"} :
          \/ /\ notifyCall.telegram.promise = "pending"
             /\ notifyCall' = [notifyCall EXCEPT
                                  !.telegram.outcome = outcome,
                                  !.telegram.promise = "fulfilled"]
          \/ /\ notifyCall.discord.promise = "pending"
             /\ notifyCall' = [notifyCall EXCEPT
                                  !.discord.outcome = outcome,
                                  !.discord.promise = "fulfilled"]
    /\ UNCHANGED <<monitorConfig, observed>>
    /\ UNCHANGED restartVars
    /\ UNCHANGED monitorVars
    /\ UNCHANGED detectVars

\* Both deliveries have settled: notify's await resumes.
NotifyReturns ==
    /\ notifyCall.pc = "awaiting"
    /\ notifyCall.telegram.promise # "pending"
    /\ notifyCall.discord.promise # "pending"
    /\ notifyCall' = [notifyCall EXCEPT
                         !.pc = notify(notifyCall.telegram, notifyCall.discord)]
    /\ UNCHANGED <<monitorConfig, observed>>
    /\ UNCHANGED restartVars
    /\ UNCHANGED monitorVars
    /\ UNCHANGED detectVars

NotifySpec ==
    NotifyInit /\ [][NotifyCalled \/ DeliverySettles \/ NotifyReturns]_vars


\* ----------------------------------------------------------------- claims
\* C1 (as claimed): within one tick the detectors run in the order fork,
\* stall, unhealthy-nodes, and once a detector has reported a condition no
\* lower-priority detector is run in that tick, also when the orchestrator
\* skips the restart.
C1_RanInOrder == \A j \in ran : \A i \in 1..j : i \in ran
C1_TickStopsAtFirstDetected ==
    /\ C1_RanInOrder
    /\ \A i \in detected : \A j \in ran : j <= i

\* C1 (amended): within one tick the detectors run in the order fork, stall,
\* unhealthy-nodes, and once the orchestrator has performed a restart for a
\* detected condition no lower-priority detector is run in that tick; a
\* condition whose restart the orchestrator skipped does not end the tick.
C1_TickStopsAtFirstRestart ==
    /\ \A j \in ran : \A i \in 1..(j - 1) : i \in ran /\ i \notin performed
    /\ performed \subseteq detected /\ detected \subseteq ran
    /\ (tick.stage = "detect" /\ tick.ci > 1) => (tick.ci - 1) \in ran
C1_Witness ==
    /\ tick = NoTick /\ ran = {1, 2} /\ detected = {2} /\ performed = {2}
    /\ mainPc = "sleep" /\ history # <<>>

\* C2: at most one restart procedure is running at any time, and in daemon
\* mode a tick never begins while an executeRestart call of an earlier tick
\* has not returned.
C2_RestartsAreSerial ==
    /\ [](restartsRunning <= 1 /\ orchActive <= 1)
    /\ [][(mainPc = "check" /\ mainPc' # "check") => orchActive = 0]_vars
C2_Witness ==
    /\ cfg.daemon /\ restartsRunning = 1 /\ tick.stage = "restarting"
    /\ Len(history) >= 1 /\ mainPc = "awaitCheck"

ErrorNodes(snap) == {snap.views[i].nodeId : i \in {j \in DOMAIN snap.views : snap.views[j].error}}
HealthyViews(snap) == {i \in DOMAIN snap.views : ~snap.views[i].error}
PeerSet(view) == Range(view.peers)

\* C3: when a shutdown signal arrives while a restart procedure is in
\* progress, the process does not exit before the procedure has run to its
\* end: an exited process never leaves a procedure between two of its steps
\* or with a step still awaited.
C3_ShutdownWaitsForProcedure == exited => ~Running

\* C4: in restartFullMetagraph the layers are stopped in the order DL1, CL1,
\* GL0, ML0, the stops of one layer on all nodes completing before any stop
\* of the next layer is issued; every stop completes before the first start
\* is issued; the layers are started in the order ML0, GL0, CL1, DL1, every
\* node of a layer started before any node of the next layer.
C4_StopRank(l) ==
    CASE l = "DL1" -> 1 [] l = "CL1" -> 2 [] l = "GL0" -> 3 [] OTHER -> 4
C4_StartRank(l) ==
    CASE l = "ML0" -> 1 [] l = "GL0" -> 2 [] l = "CL1" -> 3 [] OTHER -> 4
C5_FullLayerOrder ==
    plan.group = "FullLayer" =>
        \A c \in issued :
            /\ c.layer = plan.layer
            /\ c.op = "start" =>
                  /\ \A i \in 1..n : StopCmd(i, plan.layer) \in completed
                  /\ c.node = 1 => c.seed = NoSeed
                  /\ c.node # 1 =>
                        /\ c.seed = Host(1)
                        /\ StartCmd(1, plan.layer, NoSeed) \in completed
                        /\ \A j \in 2..(c.node - 1) :
                              StartCmd(j, plan.layer, Host(1)) \in completed
C5_Witness ==
    /\ plan.group = "FullLayer" /\ pc = "done" /\ n >= 3
    /\ \A j \in 2..n : StartCmd(j, plan.layer, Host(1)) \in completed

C7_NoSeedDowngradesToFullLayer ==
    (plan.group = "IndividualNode" /\ issued # {}) =>
        IF seedNode(plan, NodeList(n)) = 0
        THEN \A i \in 1..n : StopCmd(i, plan.layer) \in issued
        ELSE \A c \in issued : c.op = "start" /\ c.seed # NoSeed

\* C8: under the IndividualNode procedure the seed a target rejoins is the
\* node with the lowest id among the majority nodes that are not targets: it
\* is never a target, a minority node or an unreachable node.
C8_MajorityNonTargets ==
    {x \in Range(partition.majorityNodes) : ~InSeq(x, plan.nodeIds)}
C9_AgreeingViewsNoEvent ==
    (/\ snapshot # NoSnapshot
     /\ \A i \in DOMAIN snapshot.views :
           /\ ~snapshot.views[i].error
           /\ snapshot.views[i].peers # <<>>
           /\ PeerSet(snapshot.views[i]) = PeerSet(snapshot.views[1]))
        => events = <<>>
C9_Witness ==
    /\ snapshot # NoSnapshot /\ n >= 3 /\ events = <<>>
    /\ \A i \in DOMAIN snapshot.views : ~snapshot.views[i].error
    /\ \E i, j \in DOMAIN snapshot.views :
          /\ snapshot.views[i].peers = <<"a", "b">>
          /\ snapshot.views[j].peers = <<"b", "a">>
    /\ \A i \in DOMAIN snapshot.views : PeerSet(snapshot.views[i]) = {"a", "b"}

\* C10: for every snapshot with at least one error view and at least one
\* healthy view, the nodes with error views are the node ids of a
\* NODE_UNREACHABLE event, none of them is a minority node, and a
\* FORK_DETECTED event is emitted only if two healthy views list different
\* sets of peer ids.
C10_ErrorViewsAreUnreachableNotForked ==
    (/\ snapshot # NoSnapshot
     /\ ErrorNodes(snapshot) # {}
     /\ HealthyViews(snapshot) # {})
        => /\ \E i \in DOMAIN events :
                 /\ events[i].condition = "NODE_UNREACHABLE"
                 /\ Range(events[i].nodeIds) = ErrorNodes(snapshot)
           /\ Range(findMajority(snapshot).minorityNodes)
                  \cap ErrorNodes(snapshot) = {}
           /\ \A i \in DOMAIN events :
                 events[i].condition = "FORK_DETECTED" =>
                     /\ Range(events[i].nodeIds) \cap ErrorNodes(snapshot) = {}
                     /\ \E v, w \in HealthyViews(snapshot) :
                           PeerSet(snapshot.views[v]) # PeerSet(snapshot.views[w])
C10_Witness ==
    /\ snapshot # NoSnapshot /\ n >= 3
    /\ ErrorNodes(snapshot) # {}
    /\ Cardinality(HealthyViews(snapshot)) >= 2
    /\ \A v, w \in HealthyViews(snapshot) :
          PeerSet(snapshot.views[v]) = PeerSet(snapshot.views[w])
    /\ Len(events) = 1 /\ events[1].condition = "NODE_UNREACHABLE"

\* C11: in checkLayerFork the majority is chosen among reachable views only:
\* a reachable node whose view belongs to the largest group of reachable
\* views is never among the minority nodes, however many nodes are
\* unreachable.
C11_Reachable(povs) == {i \in DOMAIN povs : povs[i].hash # UnreachableHash}
C11_Group(povs, i) == {j \in DOMAIN povs : povs[j].hash = povs[i].hash}
C11_InLargestReachableGroup(povs, i) ==
    /\ i \in C11_Reachable(povs)
    /\ \A j \in C11_Reachable(povs) :
          povs[j].hash # povs[i].hash
              => Cardinality(C11_Group(povs, j)) < Cardinality(C11_Group(povs, i))
C11_MajorityAmongReachableViews ==
    lastCall.op = "checkLayerFork" =>
        \A i \in DOMAIN lastCall.povs :
            C11_InLargestReachableGroup(lastCall.povs, i)
                => ~InSeq(lastCall.povs[i].ip, lastCall.result.minorityNodes)

\* C13: detectForkedCluster returns scope full-layer exactly when the
\* minority nodes of the forked layer are at least as many as its majority
\* nodes, and individual-node exactly when they are strictly fewer.
C13_MajorityCount ==
    Cardinality({i \in DOMAIN lastCall.povs :
                    lastCall.povs[i].hash = lastCall.majorityHash})
C13_ScopeByMinorityVersusMajority ==
    (lastCall.op = "checkLayerFork" /\ lastCall.returned.detected) =>
        LET minority == Len(lastCall.returned.affectedNodes)
        IN  /\ lastCall.returned.restartScope = "full-layer"
                  <=> minority >= C13_MajorityCount
            /\ lastCall.returned.restartScope = "individual-node"
                  <=> minority < C13_MajorityCount

\* C12: a FORK_DETECTED event of detectForks suggests IndividualNode exactly
\* when the minority has strictly fewer nodes than the majority and FullLayer
\* exactly when it has at least as many; its nodeIds are exactly the minority
\* nodes (the healthy nodes outside the largest group of agreeing views).
C12_GroupSize(snap, i) ==
    Cardinality({j \in HealthyViews(snap) :
                    PeerSet(snap.views[j]) = PeerSet(snap.views[i])})
C12_MajoritySize(snap) ==
    CHOOSE k \in 0..Len(snap.views) :
        /\ \A i \in HealthyViews(snap) : C12_GroupSize(snap, i) <= k
        /\ (HealthyViews(snap) = {} /\ k = 0)
              \/ \E i \in HealthyViews(snap) : C12_GroupSize(snap, i) = k
C12_ForkSuggestionByPartitionSizes ==
    snapshot # NoSnapshot =>
        \A e \in DOMAIN events :
            events[e].condition = "FORK_DETECTED" =>
                LET minority == Len(events[e].nodeIds)
                    majority == C12_MajoritySize(snapshot)
                IN  /\ events[e].suggestedAction = "IndividualNode"
                          <=> minority < majority
                    /\ events[e].suggestedAction = "FullLayer"
                          <=> minority >= majority
                    /\ events[e].nodeIds = findMajority(snapshot).minorityNodes
                    /\ minority = Cardinality(Range(events[e].nodeIds))
                    /\ minority + majority = Cardinality(HealthyViews(snapshot))
                    /\ \A i, j \in HealthyViews(snapshot) :
                          (/\ ~InSeq(snapshot.views[i].nodeId, events[e].nodeIds)
                           /\ ~InSeq(snapshot.views[j].nodeId, events[e].nodeIds))
                              => PeerSet(snapshot.views[i]) = PeerSet(snapshot.views[j])
C12_Witness ==
    /\ snapshot # NoSnapshot /\ n = 4 /\ ErrorNodes(snapshot) = {}
    /\ Len(events) = 1 /\ events[1].condition = "FORK_DETECTED"
    /\ events[1].suggestedAction = "FullLayer"
    /\ Len(events[1].nodeIds) = 2

\* C14: when every view of a snapshot is an error view, detectForks emits no
\* FORK_DETECTED event and exactly one NODE_UNREACHABLE event, whose nodeIds
\* are exactly the unreachable nodes.
C14_AllUnreachableNoFork ==
    (snapshot # NoSnapshot /\ HealthyViews(snapshot) = {}) =>
        /\ Len(events) = 1
        /\ events[1].condition = "NODE_UNREACHABLE"
        /\ events[1].nodeIds = NodeList(n)
        /\ Range(events[1].nodeIds) = ErrorNodes(snapshot)
C14_Witness ==
    /\ snapshot # NoSnapshot /\ n >= 3 /\ HealthyViews(snapshot) = {}
    /\ Len(events) = 1 /\ Len(events[1].nodeIds) = n

\* C15: an event emitted when no majority is identifiable (every view of the
\* layer is an error view) carries no restart action.
C15_NoMajorityNoAction ==
    (snapshot # NoSnapshot /\ HealthyViews(snapshot) = {}) =>
        \A e \in DOMAIN events : events[e].suggestedAction = "None"

\* C16 (as claimed): every view produced by polling has an error if and only
\* if its peer list is empty.
C16_ErrorIffNoPeers ==
    \A i \in DOMAIN snapshot.views :
        snapshot.views[i].error <=> snapshot.views[i].peers = <<>>

\* C16 (amended): every view produced by polling that has an error has an
\* empty peer list; a view without an error may have an empty peer list too.
C16_ErrorViewHasNoPeers ==
    \A i \in DOMAIN snapshot.views :
        snapshot.views[i].error => snapshot.views[i].peers = <<>>
C16_Witness ==
    /\ snapshot # NoSnapshot /\ n >= 3
    /\ \E i, j, k \in DOMAIN snapshot.views :
          /\ snapshot.views[i].error /\ snapshot.views[i].peers = <<>>
          /\ ~snapshot.views[j].error /\ snapshot.views[j].peers = <<>>
          /\ ~snapshot.views[k].error /\ snapshot.views[k].peers # <<>>

C18_Advanced(snap) ==
    \/ key(snap.nodeId, snap.layer) \notin DOMAIN lastOrdinal
    \/ snap.ordinal > lastOrdinal[key(snap.nodeId, snap.layer)]
C19_Observed(nodes, layer) ==
    {i \in DOMAIN nodes : key(nodes[i], layer) \in DOMAIN lastChanged}
C19_StalledAmongObserved ==
    lastCall.op = "detectClusterStall" =>
        (lastCall.returned # NoEvent <=>
            /\ C19_Observed(lastCall.nodes, lastCall.layer) # {}
            /\ \A i \in C19_Observed(lastCall.nodes, lastCall.layer) :
                  now - lastChanged[key(lastCall.nodes[i], lastCall.layer)]
                      >= lastCall.thresholdSec)

\* C19 (amended): detectClusterStall reports a cluster stall if and only if
\* the node list is not empty and every node of the list has a recorded
\* observation for the layer with staleSecs at least the threshold; a node
\* never observed prevents the event. The event names every node of the list
\* and suggests FullMetagraph.
C19_StalledOnEveryNode ==
    lastCall.op = "detectClusterStall" =>
        /\ lastCall.returned # NoEvent <=>
              /\ Len(lastCall.nodes) > 0
              /\ \A i \in DOMAIN lastCall.nodes :
                    /\ key(lastCall.nodes[i], lastCall.layer) \in DOMAIN lastChanged
                    /\ now - lastChanged[key(lastCall.nodes[i], lastCall.layer)]
                          >= lastCall.thresholdSec
        /\ lastCall.returned # NoEvent =>
              /\ lastCall.returned.condition = "SNAPSHOT_STALL"
              /\ lastCall.returned.layer = lastCall.layer
              /\ lastCall.returned.nodeIds = lastCall.nodes
              /\ lastCall.returned.suggestedAction = "FullMetagraph"
C19_Witness ==
    /\ lastCall.op = "detectClusterStall" /\ lastCall.returned # NoEvent
    /\ Len(lastCall.nodes) >= 2

C20_FirstReachable(ords) ==
    {i \in DOMAIN ords :
        ords[i] >= 0 /\ \A j \in 1..(i - 1) : ords[j] < 0}
C22_EventsFor(id) ==
    {i \in DOMAIN lastCall.returned : lastCall.returned[i].nodeIds = <<id>>}

C23_StaleWithinLargestGap ==
    \A k \in DOMAIN observed :
        (observed[k].increasing /\ observed[k].at = now)
        => /\ observed[k].peak <= observed[k].largestGap
           /\ ~staleSecs(k[1], k[2], lastChanged, now).null
           /\ staleSecs(k[1], k[2], lastChanged, now).secs
                 <= observed[k].largestGap

\* Three observations with increasing ordinals, one second and then two
\* seconds apart; staleSecs reached two in between.
C23_Witness ==
    \E k \in DOMAIN observed :
        /\ observed[k].increasing /\ observed[k].count = 3
        /\ observed[k].at = now
        /\ observed[k].largestGap = 2 /\ observed[k].peak = 2

\* C24: detectSnapshotsStopped uses the ordinal of the first node, in
\* configured order, that returns a non-negative value as the tick's
\* canonical ordinal (it is the ordinal remembered after the call); when no
\* node returns a non-negative ordinal it emits no stall event on that tick
\* and remembers nothing; when only one node is reachable the stall is judged
\* on that node's ordinal alone.
C24_CanonicalOrdinalIsFirstNonNegative ==
    lastCall.op = "detectSnapshotsStopped" =>
        LET ords == lastCall.ords
            reachable == {i \in DOMAIN ords : ords[i] >= 0}
        IN  /\ reachable = {} =>
                  /\ ~lastCall.returned.detected
                  /\ lastCall.returned.restartScope = "none"
                  /\ lastKnownOrdinal = lastCall.before.lastKnownOrdinal
                  /\ lastOrdinalChangeTime = lastCall.before.lastOrdinalChangeTime
            /\ \A i \in reachable :
                  (\A j \in reachable : i <= j) => lastKnownOrdinal = ords[i]
            /\ \A i \in reachable :
                  reachable = {i} =>
                     (lastCall.returned.detected <=>
                        /\ ords[i] = lastCall.before.lastKnownOrdinal
                        /\ now - lastCall.before.lastOrdinalChangeTime
                              >= snapshotStallMinutes)

\* The first node is unreachable, the second is the only one that answers,
\* with ordinal zero, and the stall is reported on its ordinal.
C24_Witness ==
    /\ lastCall.op = "detectSnapshotsStopped"
    /\ Len(lastCall.ords) >= 2
    /\ lastCall.ords[1] < 0 /\ lastCall.ords[2] = 0
    /\ {i \in DOMAIN lastCall.ords : lastCall.ords[i] >= 0} = {2}
    /\ lastCall.returned.detected

\* The cooldown applies / the rate limit is reached at the time of a call.
C25_InCooldown ==
    /\ history # <<>>
    /\ now - history[Len(history)].finishedAt < cfg.restartCooldownMinutes
C26_AtLimit ==
    Cardinality({i \in DOMAIN history : now - history[i].startedAt < 60})
        >= cfg.maxRestartsPerHour
C25_NothingStarted ==
    /\ restartsRunning' = restartsRunning
    /\ history' = history
    /\ tick'.stage # "restarting"

\* C25: a call of the orchestrator made less than restartCooldownMinutes
\* after the previous restart finished, whether that restart succeeded or
\* failed, returns Skipped(cooldown) and starts no restart procedure (no
\* command is issued).
C25_SecondCallInCooldownIsSkipped ==
    [][(tick.stage = "restart" /\ C25_InCooldown) =>
          /\ lastCall' = [op |-> "executeRestart", at |-> now,
                          returned |-> "cooldown"]
          /\ C25_NothingStarted]_vars

\* A call in a later tick, within the cooldown of a restart that failed,
\* has been skipped for the cooldown.
C25_Witness ==
    /\ lastCall.op = "executeRestart" /\ lastCall.returned = "cooldown"
    /\ lastCall.at = now
    /\ history # <<>>
    /\ history[Len(history)].outcome = "failed"
    /\ now > history[Len(history)].finishedAt
    /\ restartsRunning = 0

\* The restarts started in the hour up to minute t.
C26_StartedInHourUpTo(t) ==
    {i \in DOMAIN history :
        t - history[i].startedAt < 60 /\ history[i].startedAt <= t}
C26_WindowHolds ==
    /\ \A i \in DOMAIN history :
          Cardinality(C26_StartedInHourUpTo(history[i].startedAt))
              <= cfg.maxRestartsPerHour
    /\ tick.stage = "restarting" =>
          Cardinality(C26_StartedInHourUpTo(tick.startedAt)) + 1
              <= cfg.maxRestartsPerHour

\* C26 (as claimed): in any rolling one-hour window at most
\* maxRestartsPerHour restart procedures are started, and a call made when
\* that many restarts have startedAt within the last hour returns
\* Skipped(rate-limit) and starts nothing.
C26_CallAtLimitReturnsRateLimit ==
    /\ []C26_WindowHolds
    /\ [][(tick.stage = "restart" /\ C26_AtLimit) =>
             /\ lastCall' = [op |-> "executeRestart", at |-> now,
                             returned |-> "rate-limit"]
             /\ C25_NothingStarted]_vars

\* C26 (amended): in any rolling one-hour window at most maxRestartsPerHour
\* restart procedures are started; a call made when that many restarts have
\* startedAt within the last hour starts nothing and returns
\* Skipped(rate-limit), unless the cooldown applies as well, in which case
\* it returns Skipped(cooldown).
C26_CallAtLimitIsSkipped ==
    /\ []C26_WindowHolds
    /\ [][(tick.stage = "restart" /\ C26_AtLimit) =>
             /\ lastCall' = [op |-> "executeRestart", at |-> now,
                             returned |-> IF C25_InCooldown THEN "cooldown"
                                          ELSE "rate-limit"]
             /\ C25_NothingStarted]_vars

\* A call is skipped for the rate limit while a restart of more than an
\* hour ago is still on record: the window has rolled.
C26_Witness ==
    /\ lastCall.op = "executeRestart" /\ lastCall.returned = "rate-limit"
    /\ lastCall.at = now
    /\ \E i \in DOMAIN history : now - history[i].startedAt >= 60
    /\ \E i \in DOMAIN history : now - history[i].startedAt < 60

C27_HypergraphNeverActuates ==
    lastCall.op = "detectHypergraphHealth" =>
        /\ lastCall.returned.condition = "HypergraphHealth"
        /\ lastCall.returned.restartScope = "none"

\* The hypergraph answers on the second URL, after the first threw, and a
\* reachable GL0 node sees no more peers than the configured nodes: the
\* disconnection is detected.
C27_Witness ==
    /\ lastCall.op = "detectHypergraphHealth"
    /\ lastCall.hgConfig.enabled
    /\ lastCall.probes = <<"throws", "info">>
    /\ lastCall.hgCluster > 0
    /\ lastCall.returned.detected
    /\ lastCall.returned.details = "disconnected"

\* C29: notify(event) never fails: whatever the outcome of the Telegram and
\* Discord deliveries (missing credentials, non-2xx response, thrown network
\* error), it completes without raising, and the failure of one channel does
\* not prevent the attempt on the other: Discord is attempted exactly when
\* its webhook is configured, Telegram exactly when its credentials are
\* configured and its message could be formatted, and a delivery that ended
\* with a response or a network error has fulfilled its own promise.
C29_NotifyNeverFails ==
    /\ notifyCall.pc # "raised"
    /\ notifyCall.pc \in {"awaiting", "returned"} =>
          /\ notifyCall.discord.attempted <=> monitorConfig.discord
          /\ notifyCall.telegram.attempted <=>
                (monitorConfig.telegram
                    /\ notifyCall.telegram.outcome # "formatThrows")
          /\ \A d \in {notifyCall.telegram, notifyCall.discord} :
                d.outcome \in {"none", "ok", "badStatus", "throws"} =>
                    d.promise = "fulfilled"
    /\ notifyCall.pc = "returned" =>
          /\ notifyCall.telegram.promise # "pending"
          /\ notifyCall.discord.promise # "pending"

\* notify has returned after the Telegram delivery was rejected before its
\* request and the Discord delivery, attempted all the same, threw.
C29_Witness ==
    /\ notifyCall.pc = "returned"
    /\ notifyCall.telegram.promise = "rejected"
    /\ notifyCall.discord.attempted
    /\ notifyCall.discord.outcome = "throws"

\* The canonical keys as JavaScript compares the strings: 'EMPTY' is below
\* every joined id list, and joined lists compare id by id, a proper prefix
\* being the smaller.
RECURSIVE C30_IdsLess(_, _)
C30_IdsLess(x, y) ==
    IF y = <<>> THEN FALSE
    ELSE IF x = <<>> THEN TRUE
    ELSE IF Head(x) # Head(y) THEN IdRank(Head(x)) < IdRank(Head(y))
    ELSE C30_IdsLess(Tail(x), Tail(y))
C30_KeyLess(k1, k2) ==
    IF k1.tag = "EMPTY" THEN k2.tag # "EMPTY"
    ELSE k2.tag # "EMPTY" /\ C30_IdsLess(k1.ids, k2.ids)
C30_Healthy == {i \in DOMAIN snapshot.views : ~snapshot.views[i].error}
C30_GroupOf(i) ==
    {j \in C30_Healthy :
        clusterKey(snapshot.views[j]) = clusterKey(snapshot.views[i])}
C30_Largest ==
    {i \in C30_Healthy :
        \A j \in C30_Healthy :
            Cardinality(C30_GroupOf(j)) <= Cardinality(C30_GroupOf(i))}

\* C30: when two or more groups of healthy views tie for the largest size,
\* findMajority chooses as majority the group whose canonical key is
\* lexicographically smallest (so that the classification does not depend on
\* the order of the views): no largest group has a key below the majority
\* key.
C30_TieBrokenBySmallestKey ==
    (snapshot # NoSnapshot /\ C30_Healthy # {}) =>
        \A i \in C30_Largest :
            ~C30_KeyLess(clusterKey(snapshot.views[i]),
                         findMajority(snapshot).majorityKey)

\* The nodes of `states` at ordinal o, and the ordinals that occur.
C31_At(states, o) == {i \in DOMAIN states : states[i].ordinal = o}
C31_Ordinals(states) == {states[i].ordinal : i \in DOMAIN states}

\* C31: for a split of GL0 ordinals detectGL0Fork emits a fork event whose
\* nodeIds are the nodes not at the majority ordinal, with IndividualNode
\* for a 2-versus-1 split and FullLayer for a three-way split with one node
\* per ordinal; it returns no event when all ordinals agree or fewer than
\* two states are given.
C31_GL0ForkActionBySplit ==
    lastCall.op = "detectGL0Fork" =>
        LET states == lastCall.states
            r == lastCall.returned
            ords == C31_Ordinals(states)
        IN  /\ (Len(states) < 2 \/ Cardinality(ords) = 1) => r = NoEvent
            /\ (Len(states) >= 2 /\ Cardinality(ords) > 1) =>
                  /\ r.condition = "FORK_DETECTED" /\ r.layer = "GL0"
                  /\ \E o \in ords :
                        /\ \A q \in ords :
                              Cardinality(C31_At(states, q))
                                 <= Cardinality(C31_At(states, o))
                        /\ Range(r.nodeIds) =
                              {states[i].nodeId :
                                  i \in DOMAIN states \ C31_At(states, o)}
            /\ (Len(states) = 3 /\ Cardinality(ords) = 2) =>
                  r.suggestedAction = "IndividualNode"
            /\ (Len(states) = 3 /\ Cardinality(ords) = 3) =>
                  r.suggestedAction = "FullLayer"

\* C32: detectForkedCluster checks the layers in the order ML0, CL1, DL1 and
\* returns at the first forked layer: the layer probed is the next of that
\* order, a later layer is probed only after the one before it was found
\* unforked in the same call, the reported affected layer is the forked
\* layer just probed, and after a forked layer the next probe is the first
\* layer of a new call.
C32_FirstForkedLayerWins ==
    /\ [](forkLayer > 1 =>
             /\ lastCall.op = "checkLayerFork"
             /\ ~lastCall.result.forked
             /\ lastCall.returned = notReturned
             /\ lastCall.layer = <<"ml0", "cl1", "dl1">>[forkLayer - 1])
    /\ [][lastCall'.op = "checkLayerFork" =>
             /\ lastCall'.layer = <<"ml0", "cl1", "dl1">>[forkLayer]
             /\ lastCall'.result.forked =>
                   /\ lastCall'.returned.detected
                   /\ lastCall'.returned.affectedLayers = <<lastCall'.layer>>
                   /\ forkLayer' = 1
             /\ ~lastCall'.result.forked =>
                   /\ ~lastCall'.returned.detected
                   /\ forkLayer' = IF forkLayer = 3 THEN 1 ELSE forkLayer + 1]_vars

\* CL1 was found forked after ML0 was found unforked; DL1 is not probed.
C32_Witness ==
    /\ lastCall.op = "checkLayerFork"
    /\ lastCall.layer = "cl1"
    /\ lastCall.returned.detected
    /\ lastCall.returned.affectedLayers = <<"cl1">>
    /\ forkLayer = 1

\* C33: in detectSnapshotsStopped the last recorded canonical ordinal never
\* decreases across ticks, and the stall clock is restarted only by a first
\* observation or by an ordinal strictly larger than the recorded one; an
\* observed ordinal lower than the recorded one leaves the recorded ordinal
\* and the clock unchanged.
C33_RecordedOrdinalNeverDecreases ==
    lastCall.op = "detectSnapshotsStopped" =>
        LET current == currentOrdinalOf(lastCall.ords)
            before  == lastCall.before
        IN  /\ lastKnownOrdinal >= before.lastKnownOrdinal
            /\ lastOrdinalChangeTime # before.lastOrdinalChangeTime =>
                  current > before.lastKnownOrdinal
            /\ (current >= 0 /\ current < before.lastKnownOrdinal) =>
                  /\ lastKnownOrdinal = before.lastKnownOrdinal
                  /\ lastOrdinalChangeTime = before.lastOrdinalChangeTime

\* C34: clusterKey depends only on the set of peer ids of a healthy view:
\* two error-free views have the same key exactly when their peer lists hold
\* the same ids (in any order), an error view has key 'ERROR:<nodeId>' and
\* an error-free view with no peers has key 'EMPTY'.
C34_KeyIsFunctionOfPeerSet ==
    \A i \in DOMAIN snapshot.views :
        LET v == snapshot.views[i]
        IN  /\ v.error => clusterKey(v) =
                  [tag |-> "ERROR", node |-> v.nodeId, ids |-> <<>>]
            /\ (~v.error /\ v.peers = <<>>) => clusterKey(v) = EmptyKey
            /\ \A j \in DOMAIN snapshot.views :
                  LET w == snapshot.views[j]
                  IN  (~v.error /\ ~w.error) =>
                         (Range(v.peers) = Range(w.peers)
                             <=> clusterKey(v) = clusterKey(w))

\* A snapshot with two views listing the same peers in different orders, a
\* view without peers and an error view.
C34_Witness ==
    \E i, j, k, l \in DOMAIN snapshot.views :
        /\ snapshot.views[i].peers = <<"a", "b">>
        /\ snapshot.views[j].peers = <<"b", "a">>
        /\ ~snapshot.views[k].error /\ snapshot.views[k].peers = <<>>
        /\ snapshot.views[l].error

\* C35: for every snapshot (its views have distinct node ids) the
\* majorityNodes, minorityNodes and unreachable lists returned by
\* findMajority are pairwise disjoint and together contain every node id of
\* the snapshot exactly once; the majority group is at least as large as
\* every other group of healthy views.
C35_PartitionCoversEachNodeOnce ==
    snapshot # NoSnapshot =>
        LET m   == findMajority(snapshot)
            all == m.majorityNodes \o m.minorityNodes \o m.unreachable
        IN  /\ Len(all) = Len(snapshot.views)
            /\ \A i, j \in DOMAIN all : i # j => all[i] # all[j]
            /\ Range(all) =
                  {snapshot.views[i].nodeId : i \in DOMAIN snapshot.views}
            /\ Range(m.majorityNodes) \cap Range(m.minorityNodes) = {}
            /\ Range(m.majorityNodes) \cap Range(m.unreachable) = {}
            /\ Range(m.minorityNodes) \cap Range(m.unreachable) = {}
            /\ \A i \in C30_Healthy :
                  Cardinality(C30_GroupOf(i)) <= Len(m.majorityNodes)

\* A snapshot of four nodes: two agree, one differs, one is unreachable.
C35_Witness ==
    /\ snapshot # NoSnapshot
    /\ Len(findMajority(snapshot).majorityNodes) = 2
    /\ Len(findMajority(snapshot).minorityNodes) = 1
    /\ Len(findMajority(snapshot).unreachable) = 1
    /\ findMajority(snapshot).majorityNodes[1] # 1

C37_UnreachableTimeCountsTowardStall ==
    lastCall.op = "detectSnapshotsStopped" =>
        LET current == currentOrdinalOf(lastCall.ords)
            before  == lastCall.before
        IN  /\ current < 0 =>
                  /\ ~lastCall.returned.detected
                  /\ lastKnownOrdinal = before.lastKnownOrdinal
                  /\ lastOrdinalChangeTime = before.lastOrdinalChangeTime
                  /\ "outage" \in DOMAIN observed
                  /\ observed["outage"].known = lastKnownOrdinal
                  /\ observed["outage"].changed = lastOrdinalChangeTime
            /\ \A i \in DOMAIN lastCall.outage :
                  LET o == lastCall.outage[i]
                  IN  /\ before.lastKnownOrdinal = o.known
                      /\ before.lastOrdinalChangeTime = o.changed
                      /\ (current >= 0 /\ current = o.known
                          /\ now - o.changed >= snapshotStallMinutes) =>
                            /\ lastCall.returned.detected
                            /\ lastCall.returned.restartScope = "full-metagraph"

\* The ordinal was recorded less than the threshold before the outage began
\* (so the threshold was passed during the outage), the nodes come back with
\* it and the stall is reported at once.
C37_Witness ==
    /\ lastCall.op = "detectSnapshotsStopped"
    /\ lastCall.outage # <<>>
    /\ currentOrdinalOf(lastCall.ords) = lastCall.outage[1].known
    /\ lastCall.outage[1].early
    /\ lastCall.returned.detected

\* C38: a FullMetagraph restart never issues a command it has issued before;
\* a start of a (node, layer) pair is issued only after the stop of that
\* pair has completed; the first configured node is started without a seed
\* on every layer and every other node joins that node's host; and when the
\* restart has completed without failure, exactly the stop of each (node,
\* layer) pair and one start of each pair have been issued and completed.
C38_Starts ==
    {StartCmd(i, l, IF i = 1 THEN NoSeed ELSE Host(1)) :
        i \in 1..n, l \in LayerNames}
C38_Stops == {StopCmd(i, l) : i \in 1..n, l \in LayerNames}
C39_IndividualPlanTouchesOnlyTargets ==
    plan.group = "IndividualNode" =>
        /\ \A c \in issued :
              /\ c.op = "start" /\ c.layer = plan.layer
              /\ c.node \in 1..n /\ InSeq(c.node, plan.nodeIds)
              /\ c.node # seedNode(plan, NodeList(n))
              /\ c.seed = SeedHost(plan, NodeList(n))
              /\ \A j \in 1..(c.node - 1) :
                    InSeq(j, plan.nodeIds) =>
                        StartCmd(j, plan.layer, c.seed) \in completed
        /\ Cardinality(inflight) <= 1
        /\ (\A i \in 1..n : ~InSeq(i, plan.nodeIds)) =>
              issued = {} /\ pc = "done"

\* The plan lists node 2 before node 1 and names node 3 as seed: node 1 has
\* been restarted, node 2 is being restarted, node 3 got no command.
C39_Witness ==
    /\ plan.group = "IndividualNode" /\ plan.nodeIds = <<2, 1>>
    /\ plan.seedNode = 3 /\ n >= 3
    /\ completed = {StartCmd(1, plan.layer, Host(3))}
    /\ inflight = {StartCmd(2, plan.layer, Host(3))}

\* A plan naming only a node that is not configured has returned at once.
C39_WitnessNoTarget ==
    /\ plan.group = "IndividualNode" /\ plan.nodeIds = <<4>> /\ n = 2
    /\ pc = "done" /\ issued = {}

\* C40: at most one restart is performed in a tick; once executeRestart has
\* returned true runHealthCheck has returned, and no detector of that tick
\* ran after the one whose restart was performed, nor was a restart in
\* progress for another; a detector that throws is not recorded as detected
\* and executeRestart is not called for it: the loop is at the next
\* condition, or past the last one.
C40_AtMostOneRestartPerTick ==
    /\ Cardinality(performed) <= 1
    /\ \A p \in performed :
          /\ tick = NoTick
          /\ p \in detected
          /\ \A j \in ran : j <= p
          /\ orchActive = 0 /\ restartsRunning = 0
    /\ tick.stage \in {"restart", "restarting"} =>
          /\ tick.ci \in detected
          /\ performed = {}
    /\ (lastCall.op = "detect" /\ lastCall.returned = "throws"
        /\ lastCall.ci \in ran) =>
          /\ lastCall.ci \notin detected
          /\ lastCall.ci \notin performed
          /\ orchActive = 0 /\ restartsRunning = 0
          /\ tick = nextCondition(lastCall.ci)

\* In the second tick that restarts, the stall detector detected and its
\* restart was performed: the tick is over, the third detector did not run.
C40_Witness ==
    /\ ran = {1, 2} /\ detected = {2} /\ performed = {2}
    /\ tick = NoTick /\ cfg.daemon /\ mainPc = "sleep"
    /\ Len(history) = 2

\* The fork detector's restart was skipped, the stall detector threw and the
\* loop is at the third condition.
C40_WitnessThrow ==
    /\ lastCall.op = "detect" /\ lastCall.returned = "throws"
    /\ lastCall.ci = 2 /\ ran = {1, 2} /\ detected = {1} /\ performed = {}
    /\ tick.ci = 3 /\ tick.stage = "detect"

====
